---- MODULE Spec2Model ----
(***************************************************************************)
(* DocuMind-AI: the chunking engine (src/src/core/chunking_engine.py) and  *)
(* the summarization strategy selector                                     *)
(* (src/src/strategies/summarization_strategies.py).                       *)
(*                                                                         *)
(* A text is a sequence of characters.  The characters of the model are    *)
(*   "a"  a letter (a word the vocabulary holds as one token),             *)
(*   "."  a sentence terminator,                                           *)
(*   " "  a space,          "n"  a newline,                                *)
(*   "E"  a character whose UTF-8 bytes e1 e2 e3 are three tokens (an      *)
(*        emoji or a rare CJK character under a byte-level BPE),           *)
(*   "C"  a character whose UTF-8 bytes c1 c2 c3 are two tokens, c1 and    *)
(*        c2 c3 (a vocabulary that merged the two continuation bytes),     *)
(*   "R"  U+FFFD, which only decoding produces.                            *)
(* A token is a sequence of bytes.                                         *)
(***************************************************************************)
EXTENDS Integers, Sequences, FiniteSets, TLC

\* ------------------------------------------------------------------ bounds
MaxLen == 4          \* characters of a document, section breaks included
MaxChunkSize == 2    \* chunk_size ranges over 1..MaxChunkSize
MaxOverlap == 2      \* chunk_overlap ranges over 0..MaxOverlap
MaxStalled == 2      \* chunks a non-advancing fixed window may emit in the model
SelWindow == 3       \* total_tokens ranges over 0..SelWindow and +-SelWindow around a limit

NoneVal == "None"

\* ------------------------------------------------------------ text helpers
\* The characters of an input text.  A space reaches a text only through
\* ' '.join; in the inputs the newline is the whitespace.
Chars == {"a", ".", "n", "E"}

IsWs(c) == c \in {" ", "n"}

RECURSIVE LStrip(_)
LStrip(s) == IF s # <<>> /\ IsWs(Head(s)) THEN LStrip(Tail(s)) ELSE s

RECURSIVE RStrip(_)
RStrip(s) ==
    IF s # <<>> /\ IsWs(s[Len(s)]) THEN RStrip(SubSeq(s, 1, Len(s) - 1)) ELSE s

\* str.strip()
Strip(s) == RStrip(LStrip(s))

RECURSIVE Concat(_)
Concat(ss) == IF ss = <<>> THEN <<>> ELSE Head(ss) \o Concat(Tail(ss))

\* sep.join(parts)
RECURSIVE Join(_, _)
Join(parts, sep) ==
    IF parts = <<>> THEN <<>>
    ELSE IF Len(parts) = 1 THEN parts[1]
    ELSE parts[1] \o sep \o Join(Tail(parts), sep)

\* [f(p) for p in pieces if f(p)] with f = strip
RECURSIVE StripNonEmpty(_)
StripNonEmpty(pieces) ==
    IF pieces = <<>> THEN <<>>
    ELSE LET p == Strip(Head(pieces))
         IN  (IF p = <<>> THEN <<>> ELSE <<p>>) \o StripNonEmpty(Tail(pieces))

\* End of the maximal whitespace run that starts at position i.
RECURSIVE WsRunEnd(_, _)
WsRunEnd(s, i) ==
    IF i < Len(s) /\ IsWs(s[i + 1]) THEN WsRunEnd(s, i + 1) ELSE i

\* Leftmost match of \n\s*\n : <<start, end>>, or <<0, 0>> when there is none.
\* \s* is greedy, so the match runs to the last newline of the whitespace run.
ParaSepMatch(s) ==
    LET starts == {i \in 1..Len(s) :
                      /\ s[i] = "n"
                      /\ \E j \in (i + 1)..WsRunEnd(s, i) : s[j] = "n"}
    IN  IF starts = {} THEN <<0, 0>>
        ELSE LET i == CHOOSE x \in starts : \A y \in starts : x <= y
                 j == CHOOSE x \in (i + 1)..WsRunEnd(s, i) :
                         /\ s[x] = "n"
                         /\ \A y \in (x + 1)..WsRunEnd(s, i) : s[y] # "n"
             IN  <<i, j>>

\* re.split(r'\n\s*\n', text)
RECURSIVE ReSplitParagraphs(_)
ReSplitParagraphs(s) ==
    LET m == ParaSepMatch(s)
    IN  IF m = <<0, 0>> THEN <<s>>
        ELSE <<SubSeq(s, 1, m[1] - 1)>>
                 \o ReSplitParagraphs(SubSeq(s, m[2] + 1, Len(s)))

_split_into_paragraphs(text) == StripNonEmpty(ReSplitParagraphs(text))

\* Leftmost match of (?<=[.!?])\s+ : <<start, end>>, or <<0, 0>>.
SentSepMatch(s) ==
    LET starts == {i \in 2..Len(s) : IsWs(s[i]) /\ s[i - 1] = "."}
    IN  IF starts = {} THEN <<0, 0>>
        ELSE LET i == CHOOSE x \in starts : \A y \in starts : x <= y
             IN  <<i, WsRunEnd(s, i)>>

\* re.split(r'(?<=[.!?])\s+', text)
RECURSIVE ReSplitSentences(_)
ReSplitSentences(s) ==
    LET m == SentSepMatch(s)
    IN  IF m = <<0, 0>> THEN <<s>>
        ELSE <<SubSeq(s, 1, m[1] - 1)>>
                 \o ReSplitSentences(SubSeq(s, m[2] + 1, Len(s)))

\* _split_into_sentences without the filter: re.split alone.
_split_into_sentences_unfiltered(text) == ReSplitSentences(text)

_split_into_sentences(text) == StripNonEmpty(ReSplitSentences(text))

\* --------------------------------------------------------------- tokenizer
\* self.encoding: a byte-level BPE (tiktoken).  As under the pattern and the
\* vocabulary of cl100k_base: a terminator takes the newlines that follow it
\* into its token (".", ".\n", ".\n\n"); a space before a letter or a
\* terminator belongs to the token of that character (" a", " ."); what is
\* left of a whitespace run is one token; "E" has no token of its own and is
\* encoded as its three bytes; "C" is encoded as its first byte and a token
\* of its two continuation bytes; every other character is one token.
Glues(c) == c \in {"a", "."}

\* End of the run of newlines that follows position i (i when there is none).
RECURSIVE NlRunEnd(_, _)
NlRunEnd(s, i) ==
    IF i < Len(s) /\ s[i + 1] = "n" THEN NlRunEnd(s, i + 1) ELSE i

\* End of the token of the letter or terminator at position i.
GlyphEnd(s, i) == IF s[i] = "." THEN NlRunEnd(s, i) ELSE i

RECURSIVE EncodeFrom(_, _)
EncodeFrom(s, i) ==
    IF i > Len(s) THEN <<>>
    ELSE IF IsWs(s[i]) THEN
        LET j == WsRunEnd(s, i)
            glued == j < Len(s) /\ s[j] = " " /\ Glues(s[j + 1])
        IN  IF glued
            THEN (IF j > i THEN <<SubSeq(s, i, j - 1)>> ELSE <<>>)
                     \o <<SubSeq(s, j, GlyphEnd(s, j + 1))>>
                     \o EncodeFrom(s, GlyphEnd(s, j + 1) + 1)
            ELSE <<SubSeq(s, i, j)>> \o EncodeFrom(s, j + 1)
    ELSE IF s[i] = "E" THEN <<(<<"e1">>), (<<"e2">>), (<<"e3">>)>> \o EncodeFrom(s, i + 1)
    ELSE IF s[i] = "C" THEN <<(<<"c1">>), (<<"c2", "c3">>)>> \o EncodeFrom(s, i + 1)
    ELSE <<SubSeq(s, i, GlyphEnd(s, i))>> \o EncodeFrom(s, GlyphEnd(s, i) + 1)

\* encoding.encode(text)
Encode(text) == EncodeFrom(text, 1)

\* bytes.decode("utf-8", errors="replace"): a complete e1 e2 e3 is "E" and a
\* complete c1 c2 c3 is "C"; a truncated prefix (e1, or e1 e2) is one U+FFFD;
\* a stray continuation byte is one U+FFFD.
RECURSIVE Utf8Replace(_)
Utf8Replace(b) ==
    IF b = <<>> THEN <<>>
    ELSE IF b[1] = "e1" THEN
        IF Len(b) >= 3 /\ b[2] = "e2" /\ b[3] = "e3"
        THEN <<"E">> \o Utf8Replace(SubSeq(b, 4, Len(b)))
        ELSE IF Len(b) >= 2 /\ b[2] = "e2"
        THEN <<"R">> \o Utf8Replace(SubSeq(b, 3, Len(b)))
        ELSE <<"R">> \o Utf8Replace(Tail(b))
    ELSE IF b[1] = "c1" THEN
        IF Len(b) >= 3 /\ b[2] = "c2" /\ b[3] = "c3"
        THEN <<"C">> \o Utf8Replace(SubSeq(b, 4, Len(b)))
        ELSE IF Len(b) >= 2 /\ b[2] = "c2"
        THEN <<"R">> \o Utf8Replace(SubSeq(b, 3, Len(b)))
        ELSE <<"R">> \o Utf8Replace(Tail(b))
    ELSE IF b[1] \in {"e2", "e3", "c2", "c3"} THEN <<"R">> \o Utf8Replace(Tail(b))
    ELSE <<b[1]>> \o Utf8Replace(Tail(b))

\* encoding.decode(tokens)
Decode(toks) == Utf8Replace(Concat(toks))

count_tokens(text) == Len(Encode(text))

\* seq[start:stop] of Python, negative indexes included (0-based arguments).
PySlice(seq, start, stop) ==
    LET n  == Len(seq)
        lo == IF start < 0 THEN (IF n + start < 0 THEN 0 ELSE n + start)
              ELSE (IF start > n THEN n ELSE start)
        hi == IF stop < 0 THEN (IF n + stop < 0 THEN 0 ELSE n + stop)
              ELSE (IF stop > n THEN n ELSE stop)
    IN  SubSeq(seq, lo + 1, hi)

\* ------------------------------------------------------------- data model
\* TextChunk; metadata is the pair of fields strategy / is_complete_section,
\* an absent key or an unset Optional being NoneVal.
TextChunk(content, chunk_id, section_title, section_level, token_count, strategy, is_complete_section) ==
    [content |-> content, chunk_id |-> chunk_id,
     section_title |-> section_title, section_level |-> section_level,
     token_count |-> token_count, strategy |-> strategy,
     is_complete_section |-> is_complete_section]

\* What a flush leaves behind: the chunk, and (history, for the properties)
\* the buffer it was joined from, whether the buffer's first element is an
\* overlap tail, and the value of current_tokens at the flush.
Emit(chunk, buffer, seeded, total) ==
    [chunk |-> chunk, buffer |-> buffer, seeded |-> seeded, total |-> total]

\* ---------------------------------------------------------- ChunkingEngine
_get_overlap_text(text, overlap) ==
    LET toks == Encode(text)
    IN  IF Len(toks) <= overlap THEN text
        ELSE Decode(PySlice(toks, -overlap, Len(toks)))

_create_chunk_from_paragraphs(paragraphs, chunk_id, section_title, section_level) ==
    LET content == Join(paragraphs, <<"n", "n">>)
    IN  TextChunk(content, chunk_id, section_title, section_level,
                  count_tokens(content), "paragraph_based", NoneVal)

\* SentenceSplitChunk giving every chunk the top level instead of the section's.
SentenceSplitChunk_top_level(current_chunk, chunk_id, section) ==
    LET chunk_text == Join(current_chunk, <<" ">>)
    IN  TextChunk(chunk_text, chunk_id, section.title, 1,
                  count_tokens(chunk_text), "sentence_split", NoneVal)

SentenceSplitChunk(current_chunk, chunk_id, section) ==
    LET chunk_text == Join(current_chunk, <<" ">>)
    IN  TextChunk(chunk_text, chunk_id, section.title, section.level,
                  count_tokens(chunk_text), "sentence_split", NoneVal)

\* The for loop of _split_large_paragraph from sentence k on; st holds the
\* locals chunks, current_chunk, current_tokens, chunk_id (and seeded).
RECURSIVE LargeParagraphLoop(_, _, _, _, _, _)
LargeParagraphLoop(sentences, k, st, section, size, overlap) ==
    IF k > Len(sentences) THEN
        IF st.current_chunk # <<>>
        THEN Append(st.chunks,
                    Emit(SentenceSplitChunk(st.current_chunk, st.chunk_id, section),
                         st.current_chunk, st.seeded, st.current_tokens))
        ELSE st.chunks
    ELSE
        LET sentence == sentences[k]
            sent_tokens == count_tokens(sentence)
        IN  IF st.current_tokens + sent_tokens > size /\ st.current_chunk # <<>>
            THEN LET flushed == SentenceSplitChunk(st.current_chunk, st.chunk_id, section)
                     overlap_text == _get_overlap_text(flushed.content, overlap)
                     out == Append(st.chunks,
                                   Emit(flushed, st.current_chunk, st.seeded,
                                        st.current_tokens))
                 IN  IF overlap > 0
                     THEN LargeParagraphLoop(sentences, k + 1,
                              [chunks |-> out,
                               current_chunk |-> <<overlap_text, sentence>>,
                               current_tokens |-> count_tokens(overlap_text) + sent_tokens,
                               chunk_id |-> st.chunk_id + 1, seeded |-> TRUE],
                              section, size, overlap)
                     ELSE LargeParagraphLoop(sentences, k + 1,
                              [chunks |-> out,
                               current_chunk |-> <<sentence>>,
                               current_tokens |-> sent_tokens,
                               chunk_id |-> st.chunk_id + 1, seeded |-> FALSE],
                              section, size, overlap)
            ELSE LargeParagraphLoop(sentences, k + 1,
                     [st EXCEPT !.current_chunk = Append(@, sentence),
                                !.current_tokens = @ + sent_tokens],
                     section, size, overlap)

\* _split_large_paragraph numbering its chunks from 0.
_split_large_paragraph_from_zero(paragraph, start_chunk_id, section, size, overlap) ==
    LargeParagraphLoop(_split_into_sentences(paragraph), 1,
        [chunks |-> <<>>, current_chunk |-> <<>>, current_tokens |-> 0,
         chunk_id |-> 0, seeded |-> FALSE],
        section, size, overlap)

\* _split_large_paragraph starting at the second sentence.
_split_large_paragraph_skip_first(paragraph, start_chunk_id, section, size, overlap) ==
    LargeParagraphLoop(_split_into_sentences(paragraph), 2,
        [chunks |-> <<>>, current_chunk |-> <<>>, current_tokens |-> 0,
         chunk_id |-> start_chunk_id, seeded |-> FALSE],
        section, size, overlap)

_split_large_paragraph(paragraph, start_chunk_id, section, size, overlap) ==
    LargeParagraphLoop(_split_into_sentences(paragraph), 1,
        [chunks |-> <<>>, current_chunk |-> <<>>, current_tokens |-> 0,
         chunk_id |-> start_chunk_id, seeded |-> FALSE],
        section, size, overlap)

ParagraphChunk(st, section) ==
    Emit(_create_chunk_from_paragraphs(st.current_chunk, st.chunk_id,
                                       section.title, section.level),
         st.current_chunk, st.seeded, st.current_tokens)

\* The for loop of _split_long_section from paragraph k on.
RECURSIVE LongSectionLoop(_, _, _, _, _, _)
LongSectionLoop(paragraphs, k, st, section, size, overlap) ==
    IF k > Len(paragraphs) THEN
        IF st.current_chunk # <<>>
        THEN Append(st.chunks, ParagraphChunk(st, section))
        ELSE st.chunks
    ELSE
        LET para == paragraphs[k]
            para_tokens == count_tokens(para)
        IN  IF para_tokens > size THEN
                LET saved == IF st.current_chunk # <<>>
                             THEN [chunks |-> Append(st.chunks, ParagraphChunk(st, section)),
                                   current_chunk |-> <<>>, current_tokens |-> 0,
                                   chunk_id |-> st.chunk_id + 1, seeded |-> FALSE]
                             ELSE st
                    para_chunks == _split_large_paragraph(para, saved.chunk_id,
                                                          section, size, overlap)
                IN  LongSectionLoop(paragraphs, k + 1,
                        [saved EXCEPT !.chunks = @ \o para_chunks,
                                      !.chunk_id = @ + Len(para_chunks)],
                        section, size, overlap)
            ELSE IF st.current_tokens + para_tokens > size THEN
                LET saved == IF st.current_chunk # <<>>
                             THEN [st EXCEPT !.chunks = Append(@, ParagraphChunk(st, section)),
                                             !.chunk_id = @ + 1]
                             ELSE st
                IN  IF saved.chunks # <<>> /\ overlap > 0
                    THEN LET overlap_text ==
                                 _get_overlap_text(
                                     saved.chunks[Len(saved.chunks)].chunk.content, overlap)
                         IN  LongSectionLoop(paragraphs, k + 1,
                                 [saved EXCEPT !.current_chunk = <<overlap_text, para>>,
                                               !.current_tokens =
                                                   count_tokens(overlap_text) + para_tokens,
                                               !.seeded = TRUE],
                                 section, size, overlap)
                    ELSE LongSectionLoop(paragraphs, k + 1,
                             [saved EXCEPT !.current_chunk = <<para>>,
                                           !.current_tokens = para_tokens,
                                           !.seeded = FALSE],
                             section, size, overlap)
            ELSE LongSectionLoop(paragraphs, k + 1,
                     [st EXCEPT !.current_chunk = Append(@, para),
                                !.current_tokens = @ + para_tokens],
                     section, size, overlap)

\* _split_long_section whose running total starts below zero.
_split_long_section_total_below_zero(section, start_chunk_id, size, overlap) ==
    LongSectionLoop(_split_into_paragraphs(section.content), 1,
        [chunks |-> <<>>, current_chunk |-> <<>>, current_tokens |-> -1,
         chunk_id |-> start_chunk_id, seeded |-> FALSE],
        section, size, overlap)

_split_long_section(section, start_chunk_id, size, overlap) ==
    LongSectionLoop(_split_into_paragraphs(section.content), 1,
        [chunks |-> <<>>, current_chunk |-> <<>>, current_tokens |-> 0,
         chunk_id |-> start_chunk_id, seeded |-> FALSE],
        section, size, overlap)

\* SmartSection keeping a section whole only when strictly below chunk_size.
SmartSection_strict(section, chunk_id, size, overlap) ==
    LET section_tokens == count_tokens(section.content)
    IN  IF section_tokens < size
        THEN <<Emit(TextChunk(section.content, chunk_id, section.title,
                              section.level, section_tokens,
                              "section_preserved", TRUE),
                    <<section.content>>, FALSE, section_tokens)>>
        ELSE _split_long_section(section, chunk_id, size, overlap)

\* SmartSection marking a preserved section as not complete.
SmartSection_incomplete(section, chunk_id, size, overlap) ==
    LET section_tokens == count_tokens(section.content)
    IN  IF section_tokens <= size
        THEN <<Emit(TextChunk(section.content, chunk_id, section.title,
                              section.level, section_tokens,
                              "section_preserved", FALSE),
                    <<section.content>>, FALSE, section_tokens)>>
        ELSE _split_long_section(section, chunk_id, size, overlap)

\* One iteration of the for loop of _smart_chunk: the chunks of one section.
SmartSection(section, chunk_id, size, overlap) ==
    LET section_tokens == count_tokens(section.content)
    IN  IF section_tokens <= size
        THEN <<Emit(TextChunk(section.content, chunk_id, section.title,
                              section.level, section_tokens,
                              "section_preserved", TRUE),
                    <<section.content>>, FALSE, section_tokens)>>
        ELSE _split_long_section(section, chunk_id, size, overlap)

\* SectionChunk numbering from 1, as enumerate(sections, 1) would.
SectionChunk_one_based(section, chunk_id) ==
    TextChunk(section.content, chunk_id + 1, section.title, section.level,
              count_tokens(section.content), "section", TRUE)

\* One iteration of the for loop of _section_chunk (chunk_id is 0-based).
SectionChunk(section, chunk_id) ==
    TextChunk(section.content, chunk_id, section.title, section.level,
              count_tokens(section.content), "section", TRUE)

\* FixedChunk taking one token fewer than the window holds.
FixedChunk_short(toks, i, chunk_id, size) ==
    LET chunk_tokens == PySlice(toks, i, i + size - 1)
    IN  TextChunk(Decode(chunk_tokens), chunk_id, NoneVal, NoneVal,
                  Len(chunk_tokens), "fixed", NoneVal)

\* One iteration of the while loop of _fixed_chunk at window start i.
FixedChunk(toks, i, chunk_id, size) ==
    LET chunk_tokens == PySlice(toks, i, i + size)
    IN  TextChunk(Decode(chunk_tokens), chunk_id, NoneVal, NoneVal,
                  Len(chunk_tokens), "fixed", NoneVal)

\* SentenceChunk carrying the first sentence of the buffer over twice.
SentenceChunk_repeat(current_chunk, chunk_id) ==
    LET chunk_text == Join(<<Head(current_chunk)>> \o current_chunk, <<" ">>)
    IN  TextChunk(chunk_text, chunk_id, NoneVal, NoneVal,
                  count_tokens(chunk_text), "sentence", NoneVal)

\* The TextChunk that _sentence_chunk builds from its buffer.
SentenceChunk(current_chunk, chunk_id) ==
    LET chunk_text == Join(current_chunk, <<" ">>)
    IN  TextChunk(chunk_text, chunk_id, NoneVal, NoneVal,
                  count_tokens(chunk_text), "sentence", NoneVal)

\* ------------------------------------- chunk_document as a function
\* What chunk_document returns when each callee runs from its own prologue
\* (chunks = [], chunk_id = 0, empty buffer) to its return.
RECURSIVE SmartLoop(_, _, _, _, _)
SmartLoop(sections, k, chunk_id, size, overlap) ==
    IF k > Len(sections) THEN <<>>
    ELSE LET out == SmartSection(sections[k], chunk_id, size, overlap)
         IN  [j \in 1..Len(out) |-> out[j].chunk]
                 \o SmartLoop(sections, k + 1, chunk_id + Len(out), size, overlap)

_smart_chunk(document, size, overlap) ==
    SmartLoop(document.sections, 1, 0, size, overlap)

_section_chunk(document) ==
    [j \in 1..Len(document.sections) |-> SectionChunk(document.sections[j], j - 1)]

RECURSIVE FixedLoop(_, _, _, _, _)
FixedLoop(toks, i, chunk_id, size, overlap) ==
    IF i >= Len(toks) THEN <<>>
    ELSE <<FixedChunk(toks, i, chunk_id, size)>>
             \o FixedLoop(toks, i + size - overlap, chunk_id + 1, size, overlap)

\* Defined when the window advances (chunk_size > chunk_overlap) or the text
\* is empty; otherwise the loop does not end.
_fixed_chunk(text, size, overlap) == FixedLoop(Encode(text), 0, 0, size, overlap)

RECURSIVE SentenceLoop(_, _, _, _, _, _)
SentenceLoop(sentences, k, current_chunk, current_tokens, chunk_id, size) ==
    IF k > Len(sentences) THEN
        IF current_chunk # <<>> THEN <<SentenceChunk(current_chunk, chunk_id)>> ELSE <<>>
    ELSE
        LET sentence == sentences[k]
            sent_tokens == count_tokens(sentence)
        IN  IF current_tokens + sent_tokens > size /\ current_chunk # <<>>
            THEN <<SentenceChunk(current_chunk, chunk_id)>>
                     \o SentenceLoop(sentences, k + 1, <<sentence>>, sent_tokens,
                                     chunk_id + 1, size)
            ELSE SentenceLoop(sentences, k + 1, Append(current_chunk, sentence),
                              current_tokens + sent_tokens, chunk_id, size)

_sentence_chunk(text, size) ==
    SentenceLoop(_split_into_sentences(text), 1, <<>>, 0, 0, size)

chunk_document(document, strategy, size, overlap) ==
    IF strategy = "smart" THEN _smart_chunk(document, size, overlap)
    ELSE IF strategy = "fixed" THEN _fixed_chunk(document.full_text, size, overlap)
    ELSE IF strategy = "sentence" THEN _sentence_chunk(document.full_text, size)
    ELSE IF strategy = "section" THEN _section_chunk(document)
    ELSE <<>>

\* ------------------------------------------------------------------ inputs
\* A document is written as a string over Chars and the break "|", which
\* separates the contents of consecutive sections; the empty string is the
\* document without sections.  Section k is titled <<"S", k>>.
Break == "|"

DocStrings == UNION {[1..n -> Chars \cup {Break}] : n \in 0..MaxLen}

RECURSIVE SplitAtBreak(_)
SplitAtBreak(s) ==
    LET at == {i \in 1..Len(s) : s[i] = Break}
    IN  IF at = {} THEN <<s>>
        ELSE LET i == CHOOSE x \in at : \A y \in at : x <= y
             IN  <<SubSeq(s, 1, i - 1)>> \o SplitAtBreak(SubSeq(s, i + 1, Len(s)))

\* DocumentSection(title, content, level)
DocumentSection(title, content, level) ==
    [title |-> title, content |-> content, level |-> level]

\* ProcessedDocument: the two fields the engine reads.
ProcessedDocument(s) ==
    LET contents == IF s = <<>> THEN <<>> ELSE SplitAtBreak(s)
    IN  [full_text |-> Join(contents, <<"n", "n">>),
         sections  |-> [k \in 1..Len(contents) |->
                           DocumentSection(<<"S", k>>, contents[k], ((k - 1) % 6) + 1)]]

\* The document whose only section has the empty content (what
\* extract_sections makes of a text without heading and without text).
DefaultSectionDocument ==
    [full_text |-> <<>>,
     sections  |-> <<DocumentSection(<<"S", 1>>, <<>>, 1)>>]

Documents == {ProcessedDocument(s) : s \in DocStrings} \cup {DefaultSectionDocument}

Strategies == {"smart", "fixed", "sentence", "section"}

\* The strategy arguments of the callers: the four names and names that
\* chunk_document does not know (matching is exact, case included).
StrategyArgs == Strategies \cup {"semantic", "SMART"}

\* No exception raised.
NoError == [type |-> NoneVal, message |-> <<>>]

\* ValueError(f"{prefix}{value}")
ValueError(prefix, value) == [type |-> "ValueError", message |-> <<prefix, value>>]

\* chunk_document falling back to smart for a name it does not know.
Dispatch_default_smart(strat) ==
    IF strat \in Strategies THEN strat ELSE "smart"

\* The if/elif chain of chunk_document: the callee, or "error" for the raise.
Dispatch(strat) ==
    IF strat = "smart" THEN "smart"
    ELSE IF strat = "fixed" THEN "fixed"
    ELSE IF strat = "sentence" THEN "sentence"
    ELSE IF strat = "section" THEN "section"
    ELSE "error"

\* ------------------------------------------------------------------- state
VARIABLES
    chunk_size,      \* ChunkingEngine.chunk_size
    chunk_overlap,   \* ChunkingEngine.chunk_overlap
    document,        \* the argument of the running chunk_document call
    strategy,        \* its strategy argument
    pc,              \* "idle", the running strategy, "done" or "error"
    error,           \* the exception raised, NoError when none
    chunks,          \* the local list chunks; at "done", the returned list
    hist,            \* history: for chunk j its buffer, seeded flag, section, total
    chunk_id,        \* the local counter chunk_id
    k,               \* position of the for loop (section or sentence, 1-based)
    i,               \* _fixed_chunk: window start
    tokens,          \* _fixed_chunk: encode(text)
    sentences,       \* _sentence_chunk: the sentences of the text
    current_chunk,   \* _sentence_chunk: the buffer
    current_tokens,  \* _sentence_chunk: its running token total
    sel,             \* a select_strategy call: arguments, position, result
    inst,            \* a get_strategy_instance call: arguments, position, result
    models_cache,    \* llm_manager.models_cache: the cache keys it holds
    retained,        \* history: a finished call has left its frame behind
    frames,          \* the frames of two chunk_document calls running at once
    fac,             \* a get_processor call: argument, position, result
    ext,             \* an extract_sections call: argument, position, locals
    summ,            \* a generate_all_summaries call: arguments, position, locals
    session          \* st.session_state, the uploaded file and the position of a run

\* The state outside the running chunk_document call.
others == <<sel, inst, models_cache, retained, frames, fac, ext, summ, session>>

\* The calls into the document processors.
processors == <<fac, ext>>

\* The summarizer call and the application's session.
application == <<summ, session>>

vars == <<others, chunk_size, chunk_overlap, document, strategy, pc, error, chunks, hist,
          chunk_id, k, i, tokens, sentences, current_chunk, current_tokens>>

\* The engine and the frame of its running call.
engine == <<chunk_size, chunk_overlap, document, strategy, pc, error, chunks, hist,
            chunk_id, k, i, tokens, sentences, current_chunk, current_tokens>>

Hist(buffer, seeded, sec, total) ==
    [buffer |-> buffer, seeded |-> seeded, sec |-> sec, total |-> total]

\* ------------------------------------------------------- StrategySelectorr
StuffLimit == 4000       \* "if total_tokens < 4000"
RefineLimit == 50000     \* "... and total_tokens < 50000"
MapReduceLimit == 50000  \* "if total_tokens > 50000"

\* select_strategy with the refine limit taken inclusively.
select_strategy_inclusive(chunks_arg, total_tokens, quality_preference) ==
    IF total_tokens < StuffLimit THEN "stuff"
    ELSE IF quality_preference = "premium" /\ total_tokens <= RefineLimit THEN "refine"
    ELSE "map_reduce"

select_strategy(chunks_arg, total_tokens, quality_preference) ==
    IF total_tokens < StuffLimit THEN "stuff"
    ELSE IF quality_preference = "premium" /\ total_tokens < RefineLimit THEN "refine"
    ELSE IF total_tokens > MapReduceLimit THEN "map_reduce"
    ELSE IF quality_preference = "balanced" THEN "map_reduce"
    ELSE IF quality_preference = "fast" THEN "map_reduce"
    ELSE "map_reduce"

SelIdle == [pc |-> "idle", chunks |-> <<>>, total_tokens |-> 0,
            quality_preference |-> NoneVal, result |-> NoneVal]

\* No get_strategy_instance call is running.
InstIdle == [pc |-> "idle", strategy_name |-> NoneVal, model_name |-> NoneVal,
             strategy_class |-> NoneVal, result |-> NoneVal, error |-> NoError,
             cache_at_call |-> {}]

\* The callers that use the engine at the same time.
Callers == {1, 2}

\* The locals of one chunk_document invocation, before the call; interleaved
\* (history) tells that it ran a step while another invocation was under way.
FrameIdle == [pc |-> "idle", document |-> ProcessedDocument(<<>>), strategy |-> NoneVal,
              chunks |-> <<>>, chunk_id |-> 0, k |-> 1, i |-> 0, tokens |-> <<>>,
              sentences |-> <<>>, current_chunk |-> <<>>, current_tokens |-> 0,
              interleaved |-> FALSE]

\* No get_processor call has been made.
FacIdle == [pc |-> "idle", file_path |-> <<>>, result |-> NoneVal, error |-> NoError]

\* No extract_sections call has been made.
ExtIdle == [pc |-> "idle", text |-> <<>>, lines |-> <<>>, i |-> 0,
            has_section |-> FALSE,
            current_section |-> DocumentSection(<<>>, <<>>, 0),
            content_buffer |-> <<>>, sections |-> <<>>]

ProcessorsIdle == fac = FacIdle /\ ext = ExtIdle

\* No generate_all_summaries call has been made.
SummIdle == [pc |-> "idle", chunks |-> <<>>, total_tokens |-> 0, model_name |-> NoneVal,
             strategy_name |-> NoneVal,
             strategy |-> [class |-> NoneVal, model_name |-> NoneVal], summaries |-> <<>>,
             instantiated |-> {}, error |-> NoError]

\* init_session_state: processed_doc, chunks and summaries are None (0; a
\* value d > 0 says the entry was made from uploaded document d); no file
\* is in the uploader and no run is under way.  failed (history) tells that
\* the last run ended in the except branch.
SessionIdle == [pc |-> "idle", uploaded_file |-> 0, processed_doc |-> 0, chunks |-> 0,
                summaries |-> 0, failed |-> FALSE]

ApplicationIdle == summ = SummIdle /\ session = SessionIdle

\* ChunkingEngine.__init__
Init ==
    /\ sel = SelIdle
    /\ inst = InstIdle
    /\ models_cache = {}
    /\ retained = FALSE
    /\ frames = [c \in Callers |-> FrameIdle]
    /\ ProcessorsIdle
    /\ ApplicationIdle
    /\ chunk_size \in 1..MaxChunkSize
    /\ chunk_overlap \in 0..MaxOverlap
    /\ document = ProcessedDocument(<<>>)
    /\ strategy = NoneVal
    /\ pc = "idle"
    /\ error = NoError
    /\ chunks = <<>>
    /\ hist = <<>>
    /\ chunk_id = 0
    /\ k = 1
    /\ i = 0
    /\ tokens = <<>>
    /\ sentences = <<>>
    /\ current_chunk = <<>>
    /\ current_tokens = 0

\* Call with the id counter kept on the engine instead of set in the prologue.
Call_keep_chunk_id(doc, strat) ==
    /\ pc = "idle"
    /\ document' = doc
    /\ strategy' = strat
    /\ pc' = Dispatch(strat)
    /\ error' = IF Dispatch(strat) = "error"
                THEN ValueError("Unknown chunking strategy: ", strat)
                ELSE NoError
    /\ chunks' = <<>>
    /\ hist' = <<>>
    /\ chunk_id' = chunk_id
    /\ k' = 1
    /\ i' = 0
    /\ tokens' = IF strat = "fixed" THEN Encode(doc.full_text) ELSE <<>>
    /\ sentences' = IF strat = "sentence" THEN _split_into_sentences(doc.full_text)
                    ELSE <<>>
    /\ current_chunk' = <<>>
    /\ current_tokens' = 0
    /\ UNCHANGED <<others, chunk_size, chunk_overlap>>

\* chunk_document(document, strategy): dispatch and the callee's prologue.
Call(doc, strat) ==
    /\ pc = "idle"
    /\ document' = doc
    /\ strategy' = strat
    /\ pc' = Dispatch(strat)
    /\ error' = IF Dispatch(strat) = "error"
                THEN ValueError("Unknown chunking strategy: ", strat)
                ELSE NoError
    /\ chunks' = <<>>
    /\ hist' = <<>>
    /\ chunk_id' = 0
    /\ k' = 1
    /\ i' = 0
    /\ tokens' = IF strat = "fixed" THEN Encode(doc.full_text) ELSE <<>>
    /\ sentences' = IF strat = "sentence" THEN _split_into_sentences(doc.full_text)
                    ELSE <<>>
    /\ current_chunk' = <<>>
    /\ current_tokens' = 0
    /\ UNCHANGED <<others, chunk_size, chunk_overlap>>

\* _smart_chunk: one iteration of "for section in document.sections".
SmartStep ==
    /\ pc = "smart"
    /\ k <= Len(document.sections)
    /\ LET out == SmartSection(document.sections[k], chunk_id, chunk_size, chunk_overlap)
       IN  /\ chunks' = chunks \o [j \in 1..Len(out) |-> out[j].chunk]
           /\ hist' = hist \o [j \in 1..Len(out) |->
                                  Hist(out[j].buffer, out[j].seeded, k, out[j].total)]
           /\ chunk_id' = chunk_id + Len(out)
    /\ k' = k + 1
    /\ UNCHANGED <<others, chunk_size, chunk_overlap, document, strategy, pc, error, i, tokens,
                   sentences, current_chunk, current_tokens>>

\* _section_chunk: one iteration of "for chunk_id, section in enumerate(...)".
SectionStep ==
    /\ pc = "section"
    /\ k <= Len(document.sections)
    /\ chunks' = Append(chunks, SectionChunk(document.sections[k], k - 1))
    /\ hist' = Append(hist, Hist(<<document.sections[k].content>>, FALSE, k,
                                 count_tokens(document.sections[k].content)))
    /\ k' = k + 1
    /\ UNCHANGED <<others, chunk_size, chunk_overlap, document, strategy, pc, error, chunk_id,
                   i, tokens, sentences, current_chunk, current_tokens>>

\* FixedStep with a window start that stays where it is.
FixedStep_no_advance ==
    /\ pc = "fixed"
    /\ i < Len(tokens)
    /\ Len(chunks) < MaxStalled
    /\ chunks' = Append(chunks, FixedChunk(tokens, i, chunk_id, chunk_size))
    /\ hist' = Append(hist, Hist(PySlice(tokens, i, i + chunk_size), FALSE, 0,
                                 Len(PySlice(tokens, i, i + chunk_size))))
    /\ i' = i
    /\ chunk_id' = chunk_id + 1
    /\ UNCHANGED <<others, chunk_size, chunk_overlap, document, strategy, pc, error, k, tokens,
                   sentences, current_chunk, current_tokens>>

\* _fixed_chunk: one iteration of "while i < len(tokens)".  A window that does
\* not advance is cut off after MaxStalled chunks.
FixedStep ==
    /\ pc = "fixed"
    /\ i < Len(tokens)
    /\ chunk_size - chunk_overlap <= 0 => Len(chunks) < MaxStalled
    /\ chunks' = Append(chunks, FixedChunk(tokens, i, chunk_id, chunk_size))
    /\ hist' = Append(hist, Hist(PySlice(tokens, i, i + chunk_size), FALSE, 0,
                                 Len(PySlice(tokens, i, i + chunk_size))))
    /\ i' = i + chunk_size - chunk_overlap
    /\ chunk_id' = chunk_id + 1
    /\ UNCHANGED <<others, chunk_size, chunk_overlap, document, strategy, pc, error, k, tokens,
                   sentences, current_chunk, current_tokens>>

\* _sentence_chunk: one iteration of "for sentence in sentences".
SentenceStep ==
    /\ pc = "sentence"
    /\ k <= Len(sentences)
    /\ LET sentence == sentences[k]
           sent_tokens == count_tokens(sentence)
       IN  IF current_tokens + sent_tokens > chunk_size /\ current_chunk # <<>>
           THEN /\ chunks' = Append(chunks, SentenceChunk(current_chunk, chunk_id))
                /\ hist' = Append(hist, Hist(current_chunk, FALSE, 0, current_tokens))
                /\ chunk_id' = chunk_id + 1
                /\ current_chunk' = <<sentence>>
                /\ current_tokens' = sent_tokens
           ELSE /\ current_chunk' = Append(current_chunk, sentence)
                /\ current_tokens' = current_tokens + sent_tokens
                /\ UNCHANGED <<chunks, hist, chunk_id>>
    /\ k' = k + 1
    /\ UNCHANGED <<others, chunk_size, chunk_overlap, document, strategy, pc, error, i, tokens,
                   sentences>>

\* _sentence_chunk: "Save last chunk" and return.
SentenceReturn ==
    /\ pc = "sentence"
    /\ k > Len(sentences)
    /\ IF current_chunk # <<>>
       THEN /\ chunks' = Append(chunks, SentenceChunk(current_chunk, chunk_id))
            /\ hist' = Append(hist, Hist(current_chunk, FALSE, 0, current_tokens))
       ELSE UNCHANGED <<chunks, hist>>
    /\ pc' = "done"
    /\ UNCHANGED <<others, chunk_size, chunk_overlap, document, strategy, error, chunk_id, k, i,
                   tokens, sentences, current_chunk, current_tokens>>

\* "return chunks" of _smart_chunk, _section_chunk and _fixed_chunk.
Return ==
    /\ \/ pc \in {"smart", "section"} /\ k > Len(document.sections)
       \/ pc = "fixed" /\ i >= Len(tokens)
    /\ pc' = "done"
    /\ UNCHANGED <<others, chunk_size, chunk_overlap, document, strategy, error, chunks, hist,
                   chunk_id, k, i, tokens, sentences, current_chunk, current_tokens>>

\* The caller has taken the result; the engine is used again.  The frame of
\* the finished call is gone, the engine keeps only its configuration.
Reuse ==
    /\ pc \in {"done", "error"}
    /\ document' = ProcessedDocument(<<>>)
    /\ strategy' = NoneVal
    /\ pc' = "idle"
    /\ error' = NoError
    /\ chunks' = <<>>
    /\ hist' = <<>>
    /\ chunk_id' = 0
    /\ k' = 1
    /\ i' = 0
    /\ tokens' = <<>>
    /\ sentences' = <<>>
    /\ current_chunk' = <<>>
    /\ current_tokens' = 0
    /\ UNCHANGED <<others, chunk_size, chunk_overlap>>

\* A caller invokes the idle engine on some document with some strategy.
Invoke ==
    /\ pc = "idle"
    /\ \E doc \in Documents, strat \in StrategyArgs : Call(doc, strat)

Next ==
    \/ Invoke
    \/ SmartStep
    \/ SectionStep
    \/ FixedStep
    \/ SentenceStep
    \/ SentenceReturn
    \/ Return
    \/ Reuse

Spec == Init /\ [][Next]_vars

\* ------------------------------------ one engine, one call after another
\* The engine is called again while everything the finished call left behind
\* (its argument, its locals, its result) is still there: only the prologue
\* of the next call sets the locals.
\* The documents of these calls: the shorter ones, written without the letter
\* (terminator, newline and "E" give the sentences, the paragraphs and the
\* tokens that end inside a character).
ReuseDocuments ==
    {ProcessedDocument(s) :
         s \in UNION {[1..n -> {".", "n", "E", Break}] : n \in 0..(MaxLen - 2)}}
        \cup {DefaultSectionDocument}

\* The call has returned or raised; nothing is cleared.
Retain ==
    /\ pc \in {"done", "error"}
    /\ pc' = "idle"
    /\ retained' = TRUE
    /\ UNCHANGED <<sel, inst, models_cache, frames, processors, application,
                   chunk_size, chunk_overlap, document, strategy,
                   error, chunks, hist, chunk_id, k, i, tokens, sentences, current_chunk,
                   current_tokens>>

InvokeAgain ==
    /\ pc = "idle"
    /\ \E doc \in ReuseDocuments, strat \in StrategyArgs : Call(doc, strat)

NextReuse ==
    \/ InvokeAgain
    \/ SmartStep
    \/ SectionStep
    \/ FixedStep
    \/ SentenceStep
    \/ SentenceReturn
    \/ Return
    \/ Retain

SpecReuse == Init /\ [][NextReuse]_vars

\* ------------------------------------- one engine, two calls at a time
\* Two callers run chunk_document on the same engine, each on its own
\* document; their steps interleave in any order.  Each invocation has its own
\* frame of locals; self.chunk_size and self.chunk_overlap are only read.
\* The documents are the shortest ones: no section, one or several sections,
\* one-token and three-token contents.
ConcurrentDocuments ==
    {ProcessedDocument(s) :
         s \in UNION {[1..n -> {".", "E", Break}] : n \in 0..(MaxLen - 3)}}
        \cup {DefaultSectionDocument}

\* The frame after dispatch and the callee's prologue.
FrameCall(doc, strat) ==
    [FrameIdle EXCEPT
        !.pc = Dispatch(strat), !.document = doc, !.strategy = strat,
        !.tokens = IF strat = "fixed" THEN Encode(doc.full_text) ELSE <<>>,
        !.sentences = IF strat = "sentence" THEN _split_into_sentences(doc.full_text)
                      ELSE <<>>]

\* The callee's loop has an iteration left.
FrameRunning(f) ==
    \/ f.pc \in {"smart", "section"} /\ f.k <= Len(f.document.sections)
    \/ f.pc = "fixed" /\ f.i < Len(f.tokens)
    \/ f.pc = "sentence" /\ f.k <= Len(f.sentences)

\* One loop iteration of the callee on the frame f.
FrameStep(f, size, overlap) ==
    IF f.pc = "smart" THEN
        LET out == SmartSection(f.document.sections[f.k], f.chunk_id, size, overlap)
        IN  [f EXCEPT !.chunks = @ \o [j \in 1..Len(out) |-> out[j].chunk],
                      !.chunk_id = @ + Len(out), !.k = @ + 1]
    ELSE IF f.pc = "section" THEN
        [f EXCEPT !.chunks = Append(@, SectionChunk(f.document.sections[f.k], f.k - 1)),
                  !.k = @ + 1]
    ELSE IF f.pc = "fixed" THEN
        [f EXCEPT !.chunks = Append(@, FixedChunk(f.tokens, f.i, f.chunk_id, size)),
                  !.i = @ + size - overlap, !.chunk_id = @ + 1]
    ELSE
        LET sentence == f.sentences[f.k]
            sent_tokens == count_tokens(sentence)
        IN  IF f.current_tokens + sent_tokens > size /\ f.current_chunk # <<>>
            THEN [f EXCEPT !.chunks = Append(@, SentenceChunk(f.current_chunk, f.chunk_id)),
                           !.chunk_id = @ + 1, !.current_chunk = <<sentence>>,
                           !.current_tokens = sent_tokens, !.k = @ + 1]
            ELSE [f EXCEPT !.current_chunk = Append(@, sentence),
                           !.current_tokens = @ + sent_tokens, !.k = @ + 1]

\* The code after the loop ("Save last chunk" of _sentence_chunk) and the return.
FrameReturn(f) ==
    IF f.pc = "sentence" /\ f.current_chunk # <<>>
    THEN [f EXCEPT !.chunks = Append(@, SentenceChunk(f.current_chunk, f.chunk_id)),
                   !.pc = "done"]
    ELSE [f EXCEPT !.pc = "done"]

\* The chunk list, the id counter, the buffer and its total held in one place
\* for all invocations (that of the first) instead of in each frame.
Locals_of_first(fs, c) ==
    [fs[c] EXCEPT !.chunks = fs[1].chunks, !.chunk_id = fs[1].chunk_id,
                  !.current_chunk = fs[1].current_chunk,
                  !.current_tokens = fs[1].current_tokens]

\* The locals that a step of invocation c reads and writes: its own.
Locals(fs, c) == fs[c]

\* Caller c invokes chunk_document on a document no other caller is using.
ConcCall(c) ==
    /\ frames[c].pc = "idle"
    /\ \E doc \in ConcurrentDocuments, strat \in Strategies :
           /\ \A o \in Callers \ {c} :
                  frames[o].pc = "idle" \/ frames[o].document # doc
           /\ frames' = [frames EXCEPT ![c] = FrameCall(doc, strat)]
    /\ UNCHANGED <<engine, sel, inst, models_cache, retained, processors, application>>

\* The invocation of caller c runs one loop iteration.
ConcStep(c) ==
    /\ FrameRunning(Locals(frames, c))
    /\ frames[c].pc = "fixed" /\ chunk_size - chunk_overlap <= 0
           => Len(frames[c].chunks) < MaxStalled
    /\ frames' = [frames EXCEPT
                     ![c] = [FrameStep(Locals(frames, c), chunk_size, chunk_overlap)
                                EXCEPT !.interleaved =
                                    @ \/ \E o \in Callers \ {c} :
                                             /\ frames[o].pc \in Strategies
                                             /\ frames[o].chunks # <<>>]]
    /\ UNCHANGED <<engine, sel, inst, models_cache, retained, processors, application>>

\* The invocation of caller c returns.
ConcReturn(c) ==
    /\ frames[c].pc \in Strategies
    /\ ~FrameRunning(Locals(frames, c))
    /\ frames' = [frames EXCEPT ![c] = FrameReturn(Locals(frames, c))]
    /\ UNCHANGED <<engine, sel, inst, models_cache, retained, processors, application>>

NextConc ==
    \/ \E c \in Callers : ConcCall(c)
    \/ \E c \in Callers : ConcStep(c)
    \/ \E c \in Callers : ConcReturn(c)

SpecConc == Init /\ [][NextConc]_vars

\* --------------------------- smart chunking over the other vocabulary
\* The documents written with "C", whose continuation bytes share a token.
MergedByteDocuments ==
    {ProcessedDocument(s) :
         s \in UNION {[1..n -> {".", "n", "C", Break}] : n \in 0..MaxLen}}

InvokeMergedByte ==
    /\ pc = "idle"
    /\ \E doc \in MergedByteDocuments : Call(doc, "smart")

NextMergedByte ==
    \/ InvokeMergedByte
    \/ SmartStep
    \/ Return
    \/ Reuse

SpecMergedByte == Init /\ [][NextMergedByte]_vars

\* ------------------------------------------- select_strategy on its own
\* total_tokens is drawn from 0.. and from around the two limits.
TokenInputs ==
    (0..SelWindow)
        \cup ((StuffLimit - SelWindow)..(StuffLimit + SelWindow))
        \cup ((RefineLimit - SelWindow)..(RefineLimit + SelWindow))

QualityPreferences == {"fast", "balanced", "premium"}

\* The chunks argument: no chunk, or the chunks of some one-section document.
ChunkArgs ==
    {<<>>,
     <<TextChunk(<<"a">>, 0, <<"S", 1>>, 1, 1, "section_preserved", TRUE)>>,
     <<TextChunk(<<"a">>, 0, NoneVal, NoneVal, 1, "fixed", NoneVal),
       TextChunk(<<".">>, 1, NoneVal, NoneVal, 1, "fixed", NoneVal)>>}

EngineIdle ==
    /\ chunk_size = 1
    /\ chunk_overlap = 0
    /\ document = ProcessedDocument(<<>>)
    /\ strategy = NoneVal
    /\ pc = "idle"
    /\ error = NoError
    /\ chunks = <<>>
    /\ hist = <<>>
    /\ chunk_id = 0
    /\ k = 1
    /\ i = 0
    /\ tokens = <<>>
    /\ sentences = <<>>
    /\ current_chunk = <<>>
    /\ current_tokens = 0

InitSel ==
    /\ EngineIdle
    /\ sel = SelIdle
    /\ inst = InstIdle
    /\ models_cache = {}
    /\ retained = FALSE
    /\ frames = [c \in Callers |-> FrameIdle]
    /\ ProcessorsIdle
    /\ ApplicationIdle

\* A caller invokes select_strategy(chunks, total_tokens, quality_preference).
SelCall ==
    /\ sel.pc = "idle"
    /\ \E c \in ChunkArgs, t \in TokenInputs, q \in QualityPreferences \cup {"economy"} :
           sel' = [pc |-> "called", chunks |-> c, total_tokens |-> t,
                   quality_preference |-> q, result |-> NoneVal]
    /\ UNCHANGED <<engine, inst, models_cache, retained, frames, processors, application>>

\* The body of select_strategy, up to its return.
SelReturn ==
    /\ sel.pc = "called"
    /\ sel' = [sel EXCEPT !.pc = "done",
                          !.result = select_strategy(sel.chunks, sel.total_tokens,
                                                     sel.quality_preference)]
    /\ UNCHANGED <<engine, inst, models_cache, retained, frames, processors, application>>

NextSel == SelCall \/ SelReturn

SpecSel == InitSel /\ [][NextSel]_vars

\* ------------------------------------- get_strategy_instance on its own
\* settings.default_model, premium_model, fast_model and MODEL_CONFIGS
\* (three of its entries).
default_model == "gemma2-9b-it"

premium_model == "llama-3.1-70b-versatile"

fast_model == "llama-3.1-8b-instant"

MODEL_CONFIGS == {"gemma2-9b-it", "llama-3.1-70b-versatile", "llama-3.1-8b-instant"}

\* The model_name arguments: None, configured names, a name without a config.
ModelNameArgs == {NoneVal} \cup MODEL_CONFIGS \cup {"gpt-4"}

\* The strategy_name arguments: the three names and names the dict lacks.
StrategyNameArgs == {"stuff", "map_reduce", "refine", "STUFF", "auto"}

\* strategies.get(strategy_name) with StuffStrategy as the default value.
strategies_get_default_stuff(strategy_name) ==
    IF strategy_name = "map_reduce" THEN "MapReduceStrategy"
    ELSE IF strategy_name = "refine" THEN "RefineStrategy"
    ELSE "StuffStrategy"

\* strategies.get(strategy_name) on the dict of get_strategy_instance.
strategies_get(strategy_name) ==
    IF strategy_name = "stuff" THEN "StuffStrategy"
    ELSE IF strategy_name = "map_reduce" THEN "MapReduceStrategy"
    ELSE IF strategy_name = "refine" THEN "RefineStrategy"
    ELSE NoneVal

\* cache_key = f"{model_name}_{temperature}_{streaming}" with the defaults
\* temperature=0.1, streaming=False.
CacheKey(model_name) == <<model_name, "0.1", "False">>

\* A caller invokes get_strategy_instance(strategy_name, model_name).
InstCall ==
    /\ inst.pc = "idle"
    /\ \E name \in StrategyNameArgs, model \in ModelNameArgs :
           inst' = [InstIdle EXCEPT !.pc = "lookup", !.strategy_name = name,
                                    !.model_name = model,
                                    !.cache_at_call = models_cache]
    /\ UNCHANGED <<engine, sel, models_cache, retained, frames, processors, application>>

\* strategy_class = strategies.get(strategy_name); raise when it is missing.
InstLookup ==
    /\ inst.pc = "lookup"
    /\ LET strategy_class == strategies_get(inst.strategy_name)
       IN  IF strategy_class = NoneVal
           THEN inst' = [inst EXCEPT !.pc = "error",
                                     !.error = ValueError("Unknown strategy: ",
                                                          inst.strategy_name)]
           ELSE inst' = [inst EXCEPT !.pc = "construct",
                                     !.strategy_class = strategy_class]
    /\ UNCHANGED <<engine, sel, models_cache, retained, frames, processors, application>>

\* strategy_class(model_name=model_name): BaseSummarizationStrategy.__init__
\* asks llm_manager.get_model for the model.  A cached model is returned; a
\* name without a config raises ValueError; otherwise the provider client is
\* built, which succeeds (the model is cached) or raises.
InstConstruct ==
    /\ inst.pc = "construct"
    /\ LET model_name == IF inst.model_name = NoneVal THEN default_model
                         ELSE inst.model_name
           cache_key == CacheKey(model_name)
           built == [inst EXCEPT !.pc = "done",
                                 !.result = [class |-> inst.strategy_class,
                                             model_name |-> inst.model_name,
                                             llm |-> cache_key]]
       IN  IF cache_key \in models_cache
           THEN inst' = built /\ UNCHANGED models_cache
           ELSE IF model_name \notin MODEL_CONFIGS
           THEN /\ inst' = [inst EXCEPT !.pc = "error",
                                        !.error = ValueError("Unknown model: ", model_name)]
                /\ UNCHANGED models_cache
           ELSE \/ inst' = built /\ models_cache' = models_cache \cup {cache_key}
                \/ /\ inst' = [inst EXCEPT !.pc = "error",
                                           !.error = [type |-> "ProviderError",
                                                      message |-> <<model_name>>]]
                   /\ UNCHANGED models_cache
    /\ UNCHANGED <<engine, sel, retained, frames, processors, application>>

\* The caller has the instance or the exception.
InstReturn ==
    /\ inst.pc \in {"done", "error"}
    /\ inst' = InstIdle
    /\ UNCHANGED <<engine, sel, models_cache, retained, frames, processors, application>>

NextInst == InstCall \/ InstLookup \/ InstConstruct \/ InstReturn

SpecInst == InitSel /\ [][NextInst]_vars

\* ------------------------------------------- DocumentProcessorFactory
\* A path is a sequence of atoms: the separator "/", the dot ".", and words
\* without a dot or a separator, some of them with upper-case letters.
MaxName == 3         \* atoms of a path

NameAtoms ==
    {"test", ".", "/", "pdf", "PDF", "docx", "Docx", "txt", "md", "MD", "markdown",
     "Markdown", "xyz"}

Paths == UNION {[1..n -> NameAtoms] : n \in 0..MaxName}

\* str.lower() on one atom.
Lower(atom) ==
    CASE atom = "PDF" -> "pdf"
      [] atom = "Docx" -> "docx"
      [] atom = "MD" -> "md"
      [] atom = "Markdown" -> "markdown"
      [] OTHER -> atom

LowerSeq(s) == [j \in 1..Len(s) |-> Lower(s[j])]

\* The components of a path: the runs between separators, empty runs and
\* the component "." dropped (pathlib's parsing of the path).
RECURSIVE PathParts(_)
PathParts(path) ==
    LET at == {j \in 1..Len(path) : path[j] = "/"}
    IN  IF at = {}
        THEN IF path = <<>> \/ path = <<".">> THEN <<>> ELSE <<path>>
        ELSE LET j == CHOOSE x \in at : \A y \in at : x <= y
                 first == SubSeq(path, 1, j - 1)
                 rest == PathParts(SubSeq(path, j + 1, Len(path)))
             IN  IF first = <<>> \/ first = <<".">> THEN rest ELSE <<first>> \o rest

\* PurePath.name: the final component, '' when there is none.
PathName(path) ==
    LET parts == PathParts(path)
    IN  IF parts = <<>> THEN <<>> ELSE parts[Len(parts)]

\* PurePath.suffix: the name from its last dot on, when that dot is neither
\* the first nor the last character of the name; '' otherwise.
PathSuffix(path) ==
    LET name == PathName(path)
        dots == {j \in 1..Len(name) : name[j] = "."}
    IN  IF dots = {} THEN <<>>
        ELSE LET j == CHOOSE x \in dots : \A y \in dots : y <= x
             IN  IF 1 < j /\ j < Len(name) THEN SubSeq(name, j, Len(name)) ELSE <<>>

\* get_processor comparing the suffix as written, without lower().
get_processor_case_sensitive(file_path) ==
    LET suffix == PathSuffix(file_path)
    IN  IF suffix = <<".", "pdf">>
        THEN [result |-> "PDFProcessor", error |-> NoError]
        ELSE IF suffix = <<".", "docx">>
        THEN [result |-> "DOCXProcessor", error |-> NoError]
        ELSE IF suffix \in {<<".", "txt">>, <<".", "md">>, <<".", "markdown">>}
        THEN [result |-> "TextProcessor", error |-> NoError]
        ELSE [result |-> NoneVal,
              error |-> ValueError("Unsupported file type: ", suffix)]

\* DocumentProcessorFactory.get_processor(file_path)
get_processor(file_path) ==
    LET suffix == LowerSeq(PathSuffix(file_path))
    IN  IF suffix = <<".", "pdf">>
        THEN [result |-> "PDFProcessor", error |-> NoError]
        ELSE IF suffix = <<".", "docx">>
        THEN [result |-> "DOCXProcessor", error |-> NoError]
        ELSE IF suffix \in {<<".", "txt">>, <<".", "md">>, <<".", "markdown">>}
        THEN [result |-> "TextProcessor", error |-> NoError]
        ELSE [result |-> NoneVal,
              error |-> ValueError("Unsupported file type: ", suffix)]

\* A caller invokes get_processor(file_path).
FacCall ==
    /\ fac.pc = "idle"
    /\ \E path \in Paths : fac' = [FacIdle EXCEPT !.pc = "called", !.file_path = path]
    /\ UNCHANGED <<engine, sel, inst, models_cache, retained, frames, ext, application>>

\* The body of get_processor, up to its return or raise.
FacReturn ==
    /\ fac.pc = "called"
    /\ LET out == get_processor(fac.file_path)
       IN  fac' = [fac EXCEPT !.pc = IF out.error = NoError THEN "done" ELSE "error",
                              !.result = out.result,
                              !.error = out.error]
    /\ UNCHANGED <<engine, sel, inst, models_cache, retained, frames, ext, application>>

NextFac == FacCall \/ FacReturn

SpecFac == InitSel /\ [][NextFac]_vars

\* ------------------------------------------------------- extract_sections
\* A text is lines joined by the newline "n"; a line is a sequence of the
\* characters "#", " ", ".", digits, upper-case letters and the lower-case
\* letters "a" and "b".
MaxLines == 3        \* lines of a text

Digits == {"1", "2", "3", "4", "5", "6"}

RomanLetters == {"I", "V", "X", "L", "C", "D", "M"}

UpperLetters == RomanLetters \cup {"A", "B", "T"}

\* The lines the texts are made of: blank, body (one of them indented), the
\* markdown headings of depth 1, 3 and 7 hashes, an all-caps line, numbered
\* headings of one and of six groups, a roman-numeral heading.
LineSamples ==
    { <<>>,
      <<"a", "b">>,
      <<" ", "a">>,
      <<"#", " ", "T">>,
      <<"#", "#", "#", " ", "a">>,
      <<"#", "#", "#", "#", "#", "#", "#", " ", "a">>,
      <<"A", "B", "C", "D">>,
      <<"1", ".", " ", "a">>,
      <<"1", ".", "2", ".", "3", ".", "4", ".", "5", ".", "6", ".", " ", "a">>,
      <<"I", "V", ".", " ", "a">> }

Texts == {Join(ls, <<"n">>) : ls \in UNION {[1..n -> LineSamples] : n \in 1..MaxLines}}

\* text.split('\n')
RECURSIVE SplitLines(_)
SplitLines(text) ==
    LET at == {j \in 1..Len(text) : text[j] = "n"}
    IN  IF at = {} THEN <<text>>
        ELSE LET j == CHOOSE x \in at : \A y \in at : x <= y
             IN  <<SubSeq(text, 1, j - 1)>> \o SplitLines(SubSeq(text, j + 1, Len(text)))

\* The length of the longest prefix of s whose characters are all in set.
RECURSIVE RunLen(_, _)
RunLen(s, set) ==
    IF s # <<>> /\ Head(s) \in set THEN 1 + RunLen(Tail(s), set) ELSE 0

Drop(s, n) == SubSeq(s, n + 1, Len(s))

\* The length of the longest prefix of s of the form (\d+\.)*.
RECURSIVE NumberGroups(_)
NumberGroups(s) ==
    LET d == RunLen(s, Digits)
    IN  IF d >= 1 /\ d < Len(s) /\ s[d + 1] = "."
        THEN d + 1 + NumberGroups(Drop(s, d + 1))
        ELSE 0

\* r'^#{1,6}\s+(.+)$'
MatchMarkdown(s) ==
    LET h == RunLen(s, {"#"})
        w == RunLen(Drop(s, h), {" "})
    IN  1 <= h /\ h <= 6 /\ w >= 1 /\ Len(s) > h + 1

\* r'^([A-Z][A-Z\s]{3,})\s*$'
MatchAllCaps(s) ==
    /\ Len(s) >= 4
    /\ s[1] \in UpperLetters
    /\ \A j \in 2..Len(s) : s[j] \in UpperLetters \cup {" "}

\* r'^(\d+\.(?:\d+\.)*)\s+(.+)$'
MatchNumbered(s) ==
    LET g == NumberGroups(s)
        w == RunLen(Drop(s, g), {" "})
    IN  g >= 1 /\ w >= 1 /\ Len(s) > g + 1

\* r'^([IVXLCDM]+\.\s+.+)$'
MatchRoman(s) ==
    LET r == RunLen(s, RomanLetters)
        w == RunLen(Drop(s, r + 1), {" "})
    IN  r >= 1 /\ Len(s) > r /\ s[r + 1] = "." /\ w >= 1 /\ Len(s) > r + 2

\* The first pattern of the list that matches the stripped line, "none" when
\* no pattern does.
PatternType(s) ==
    IF MatchMarkdown(s) THEN "markdown"
    ELSE IF MatchAllCaps(s) THEN "all_caps"
    ELSE IF MatchNumbered(s) THEN "numbered"
    ELSE IF MatchRoman(s) THEN "roman"
    ELSE "none"

\* The number of '.'-separated pieces of s: len(s.split('.')).
SplitDotCount(s) == Cardinality({j \in 1..Len(s) : s[j] = "."}) + 1

\* heading_level of a heading line.
HeadingLevel(s) ==
    LET type == PatternType(s)
    IN  IF type = "markdown" THEN RunLen(s, {"#"})
        ELSE IF type = "numbered" THEN SplitDotCount(SubSeq(s, 1, NumberGroups(s)))
        ELSE 2

\* heading_text of a heading line keeping the markdown marks.
HeadingText_with_marks(s) ==
    LET type == PatternType(s)
    IN  IF type = "numbered"
        THEN LET g == NumberGroups(s)
             IN  Drop(s, g + RunLen(Drop(s, g), {" "}))
        ELSE s

\* heading_text of a heading line.
HeadingText(s) ==
    LET type == PatternType(s)
    IN  IF type = "markdown" THEN Strip(Drop(s, RunLen(s, {"#"})))
        ELSE IF type = "numbered"
        THEN LET g == NumberGroups(s)
             IN  Drop(s, g + RunLen(Drop(s, g), {" "}))
        ELSE s

\* A caller invokes extract_sections(text); the prologue splits the lines.
ExtCall ==
    /\ ext.pc = "idle"
    /\ \E text \in Texts :
           ext' = [ExtIdle EXCEPT !.pc = "loop", !.text = text,
                                  !.lines = SplitLines(text), !.i = 0]
    /\ UNCHANGED <<engine, sel, inst, models_cache, retained, frames, fac, application>>

\* One iteration of "for i, line in enumerate(lines)".
ExtLine ==
    /\ ext.pc = "loop"
    /\ ext.i < Len(ext.lines)
    /\ LET line == ext.lines[ext.i + 1]
           line_stripped == Strip(line)
       IN  IF line_stripped = <<>>
           THEN ext' = [ext EXCEPT !.i = @ + 1]
           ELSE IF PatternType(line_stripped) # "none"
           THEN ext' = [ext EXCEPT
                            !.i = @ + 1,
                            !.sections =
                                IF ext.has_section
                                THEN Append(@, [ext.current_section EXCEPT
                                                    !.content =
                                                        Strip(Join(ext.content_buffer,
                                                                   <<"n">>))])
                                ELSE @,
                            !.content_buffer = IF ext.has_section THEN <<>> ELSE @,
                            !.has_section = TRUE,
                            !.current_section =
                                DocumentSection(HeadingText(line_stripped), <<>>,
                                                HeadingLevel(line_stripped))]
           ELSE ext' = [ext EXCEPT !.i = @ + 1,
                                   !.content_buffer = Append(@, line)]
    /\ UNCHANGED <<engine, sel, inst, models_cache, retained, frames, fac, application>>

\* After the loop: "Add last section", the default section, return.
ExtReturn ==
    /\ ext.pc = "loop"
    /\ ext.i >= Len(ext.lines)
    /\ LET last == IF ext.has_section
                   THEN Append(ext.sections,
                               [ext.current_section EXCEPT
                                    !.content = Strip(Join(ext.content_buffer, <<"n">>))])
                   ELSE ext.sections
       IN  ext' = [ext EXCEPT
                       !.pc = "done",
                       !.sections =
                           IF last = <<>>
                           THEN <<DocumentSection(<<"Document Content">>, ext.text, 1)>>
                           ELSE last]
    /\ UNCHANGED <<engine, sel, inst, models_cache, retained, frames, fac, application>>

NextExt == ExtCall \/ ExtLine \/ ExtReturn

SpecExt == InitSel /\ [][NextExt]_vars

\* --------------------------------------------------- MultiLevelSummarizer
\* SummaryResult: summary_type, strategy_used, model_used.
SummaryResult(summary_type, strategy_used, model_used) ==
    [summary_type |-> summary_type, strategy_used |-> strategy_used,
     model_used |-> model_used]

\* strategy_used as each strategy class writes it into its result.
StrategyUsed(class) ==
    IF class = "StuffStrategy" THEN "stuff"
    ELSE IF class = "MapReduceStrategy" THEN "map_reduce"
    ELSE "refine"

\* The outcomes of get_strategy_instance(strategy_name, model_name) with the
\* model cache as it is: the exception raised, or the instance together with
\* the cache after the call.
InstanceOutcomes(strategy_name, model_name, cache) ==
    LET class == strategies_get(strategy_name)
        model == IF model_name = NoneVal THEN default_model ELSE model_name
        none == [class |-> NoneVal, model_name |-> NoneVal]
        built == [error |-> NoError,
                  instance |-> [class |-> class, model_name |-> model_name],
                  cache |-> cache \cup {CacheKey(model)}]
    IN  IF class = NoneVal
        THEN {[error |-> ValueError("Unknown strategy: ", strategy_name),
               instance |-> none, cache |-> cache]}
        ELSE IF CacheKey(model) \in cache THEN {built}
        ELSE IF model \notin MODEL_CONFIGS
        THEN {[error |-> ValueError("Unknown model: ", model),
               instance |-> none, cache |-> cache]}
        ELSE {built,
              [error |-> [type |-> "ProviderError", message |-> <<model>>],
               instance |-> none, cache |-> cache]}

\* The outcomes of instance.summarize(chunks, summary_type, style): the chain
\* raises, or the result is built.
SummarizeOutcomes(instance, summary_type) ==
    {[error |-> NoError,
      result |-> SummaryResult(summary_type, StrategyUsed(instance.class),
                               IF instance.model_name = NoneVal THEN "default"
                               ELSE instance.model_name)],
     [error |-> [type |-> "ChainError", message |-> <<summary_type>>],
      result |-> SummaryResult(summary_type, NoneVal, NoneVal)]}

\* The model_name the summarizer is built with: None, a configured name, a
\* name without a config.
SummarizerModels == {NoneVal, default_model, "gpt-4"}

\* A caller invokes generate_all_summaries(chunks, total_tokens).
SummCall ==
    /\ summ.pc = "idle"
    /\ \E c \in ChunkArgs, t \in TokenInputs, m \in SummarizerModels :
           summ' = [SummIdle EXCEPT !.pc = "select", !.chunks = c,
                                    !.total_tokens = t, !.model_name = m]
    /\ UNCHANGED <<engine, sel, inst, models_cache, retained, frames, processors, session>>

\* "Select base strategy" asking for the premium preference.
SummSelect_premium ==
    /\ summ.pc = "select"
    /\ summ' = [summ EXCEPT !.pc = "tldr",
                            !.strategy_name =
                                select_strategy(summ.chunks, summ.total_tokens, "premium")]
    /\ UNCHANGED <<engine, sel, inst, models_cache, retained, frames, processors, session>>

\* "Select base strategy".
SummSelect ==
    /\ summ.pc = "select"
    /\ summ' = [summ EXCEPT !.pc = "tldr",
                            !.strategy_name =
                                select_strategy(summ.chunks, summ.total_tokens, "balanced")]
    /\ UNCHANGED <<engine, sel, inst, models_cache, retained, frames, processors, session>>

\* One entry of the dict made by a new instance: get_strategy_instance, then
\* summarize, then summaries[key] = result; an exception of either call
\* leaves generate_all_summaries.
SummEntry(at, next, key, strategy_name, model_name) ==
    /\ summ.pc = at
    /\ \E io \in InstanceOutcomes(strategy_name, model_name, models_cache) :
           IF io.error # NoError
           THEN /\ summ' = [summ EXCEPT !.pc = "error", !.error = io.error]
                /\ UNCHANGED models_cache
           ELSE /\ models_cache' = io.cache
                /\ \E so \in SummarizeOutcomes(io.instance, key) :
                       summ' = IF so.error # NoError
                               THEN [summ EXCEPT
                                         !.pc = "error", !.error = so.error,
                                         !.instantiated = @ \cup {io.instance.class}]
                               ELSE [summ EXCEPT
                                         !.pc = next,
                                         !.strategy = IF key = "bullet" THEN io.instance
                                                      ELSE @,
                                         !.instantiated = @ \cup {io.instance.class},
                                         !.summaries =
                                             Append(@, [key |-> key, result |-> so.result])]
    /\ UNCHANGED <<engine, sel, inst, retained, frames, processors, session>>

\* "TL;DR - use fast model"
SummTldr == SummEntry("tldr", "bullet", "tldr", "stuff", fast_model)

\* "Bullet Summary - use default model"
SummBullet ==
    SummEntry("bullet", "executive", "bullet", summ.strategy_name, summ.model_name)

\* "Executive Summary - use default model": the instance of the bullet entry.
SummExecutive ==
    /\ summ.pc = "executive"
    /\ \E so \in SummarizeOutcomes(summ.strategy, "executive") :
           summ' = IF so.error # NoError
                   THEN [summ EXCEPT !.pc = "error", !.error = so.error]
                   ELSE [summ EXCEPT !.pc = "detailed",
                                     !.summaries =
                                         Append(@, [key |-> "executive",
                                                    result |-> so.result])]
    /\ UNCHANGED <<engine, sel, inst, models_cache, retained, frames, processors, session>>

\* "Detailed Summary - use premium model for best quality", and the return.
SummDetailed ==
    SummEntry("detailed", "done", "detailed", summ.strategy_name, premium_model)

\* The caller has the dict or the exception.
SummReturn ==
    /\ summ.pc \in {"done", "error"}
    /\ summ' = SummIdle
    /\ UNCHANGED <<engine, sel, inst, models_cache, retained, frames, processors, session>>

NextSumm ==
    \/ SummCall
    \/ SummSelect
    \/ SummTldr
    \/ SummBullet
    \/ SummExecutive
    \/ SummDetailed
    \/ SummReturn

SpecSumm == InitSel /\ [][NextSumm]_vars

\* ------------------------------------------------------------ app session
MaxUploads == 3      \* documents the user uploads, numbered 1..MaxUploads

\* The user puts a document into the uploader, or takes it out (0).
Upload ==
    /\ session.pc = "idle"
    /\ \E d \in 0..MaxUploads :
           /\ d # session.uploaded_file
           /\ session' = [session EXCEPT !.uploaded_file = d]
    /\ UNCHANGED <<engine, sel, inst, models_cache, retained, frames, processors, summ>>

\* The user presses "Process & Summarize"; main enters the try block.
Click ==
    /\ session.pc = "idle"
    /\ session.uploaded_file # 0
    /\ session' = [session EXCEPT !.pc = "process", !.failed = FALSE]
    /\ UNCHANGED <<engine, sel, inst, models_cache, retained, frames, processors, summ>>

\* process_document: DocumentProcessorFactory.process_document returns and
\* the result is stored, or it raises and main's except branch shows the
\* error.
ProcessDocument ==
    /\ session.pc = "process"
    /\ \/ session' = [session EXCEPT !.pc = "chunk",
                                     !.processed_doc = session.uploaded_file]
       \/ session' = [session EXCEPT !.pc = "idle", !.failed = TRUE]
    /\ UNCHANGED <<engine, sel, inst, models_cache, retained, frames, processors, summ>>

\* process_document: chunk_document returns and the chunks are stored, or it
\* raises.
ChunkDocument ==
    /\ session.pc = "chunk"
    /\ \/ session' = [session EXCEPT !.pc = "summarize",
                                     !.chunks = session.processed_doc]
       \/ session' = [session EXCEPT !.pc = "idle", !.failed = TRUE]
    /\ UNCHANGED <<engine, sel, inst, models_cache, retained, frames, processors, summ>>

\* generate_summaries returns and the summaries are stored, or it raises.
GenerateSummaries ==
    /\ session.pc = "summarize"
    /\ \/ session' = [session EXCEPT !.pc = "idle", !.summaries = session.chunks]
       \/ session' = [session EXCEPT !.pc = "idle", !.failed = TRUE]
    /\ UNCHANGED <<engine, sel, inst, models_cache, retained, frames, processors, summ>>

NextSession == Upload \/ Click \/ ProcessDocument \/ ChunkDocument \/ GenerateSummaries

SpecSession == InitSel /\ [][NextSession]_vars

\* ------------------------------------------------------------ running calls
\* A call that has started keeps executing: the interpreter runs the loop body
\* and the return statement whenever they are the next statement, so each
\* step of a running call is taken if it stays enabled.
Running == SectionStep \/ FixedStep \/ SentenceStep \/ SentenceReturn \/ Return

\* The iteration of _smart_chunk seen through its loop counter: it is enabled
\* exactly when SmartStep is, and while pc = "smart" only SmartStep changes k.
SmartIterate ==
    /\ pc = "smart"
    /\ k <= Len(document.sections)
    /\ k' = k + 1

\* A caller invokes the idle engine with one of the four strategies.
InvokeLive ==
    /\ pc = "idle"
    /\ \E doc \in ReuseDocuments, strat \in Strategies : Call(doc, strat)

NextLive ==
    \/ InvokeLive
    \/ SmartStep
    \/ SectionStep
    \/ FixedStep
    \/ SentenceStep
    \/ SentenceReturn
    \/ Return
    \/ Reuse

SpecLive == Init /\ [][NextLive]_vars /\ WF_vars(Running) /\ WF_k(SmartIterate)

\* ================================================================ claims
\* The units of chunk j that are not an overlap tail.
Units(j) == IF hist[j].seeded THEN Tail(hist[j].buffer) ELSE hist[j].buffer

\* The separator the chunk's buffer was joined with.
Sep(j) == IF chunks[j].strategy = "paragraph_based" THEN <<"n", "n">> ELSE <<" ">>

\* The indexes of the chunks made from section s, in output order.
ChunksOf(s) == {j \in 1..Len(chunks) : hist[j].sec = s}

IsPrefix(p, t) == Len(p) <= Len(t) /\ SubSeq(t, 1, Len(p)) = p

\* C1: for total_tokens >= 0 and a preference among fast, balanced, premium,
\* select_strategy returns "stuff" below 4000 tokens, else "refine" for premium
\* below 50000 tokens, else "map_reduce" (50000 with premium included); the
\* result is one of the three names and is a function of total_tokens and the
\* preference alone, whatever the chunks argument.
C1_SelectStrategyDecisionOrder ==
    (sel.pc = "done" /\ sel.quality_preference \in QualityPreferences) =>
        /\ sel.result =
               IF sel.total_tokens < 4000 THEN "stuff"
               ELSE IF sel.quality_preference = "premium" /\ sel.total_tokens < 50000
                    THEN "refine"
               ELSE "map_reduce"
        /\ sel.result \in {"stuff", "map_reduce", "refine"}

C1_Witness ==
    /\ sel.pc = "done"
    /\ sel.total_tokens = 50000
    /\ sel.quality_preference = "premium"
    /\ sel.chunks # <<>>
    /\ sel.result = "map_reduce"

\* C2: under each of the four strategies the chunk ids of the chunks produced
\* by one chunk_document call are 0, 1, ..., n-1 in output order; under smart
\* they continue across section boundaries, whatever way the sections were
\* chunked.
C2_ChunkIdsDense ==
    \A j \in 1..Len(chunks) : chunks[j].chunk_id = j - 1

C2_Witness ==
    /\ pc = "done"
    /\ strategy = "smart"
    /\ \E j \in 1..(Len(chunks) - 1) :
           /\ hist[j].sec < hist[j + 1].sec
           /\ chunks[j].strategy = "sentence_split"
           /\ chunks[j + 1].strategy = "paragraph_based"
           /\ chunks[j + 1].chunk_id = chunks[j].chunk_id + 1

\* C3: for every chunk returned under any strategy the stored token_count
\* equals count_tokens recomputed on the chunk's content, fixed-strategy
\* chunks included.
C3_TokenCountConsistent ==
    \A j \in 1..Len(chunks) :
        chunks[j].token_count = count_tokens(chunks[j].content)

\* C4: with chunk_overlap = 0 every chunk of the smart, fixed or sentence
\* strategy has token_count <= chunk_size, unless it consists of one single
\* unit that by itself exceeds chunk_size; a chunk joined from several
\* paragraphs or several sentences never exceeds chunk_size.
C4_BudgetRespected ==
    (chunk_overlap = 0 /\ strategy \in {"smart", "fixed", "sentence"}) =>
        \A j \in 1..Len(chunks) :
            \/ chunks[j].token_count <= chunk_size
            \/ /\ strategy # "fixed"
               /\ Len(hist[j].buffer) = 1
               /\ count_tokens(hist[j].buffer[1]) > chunk_size

\* C5: with chunk_overlap >= chunk_size the fixed strategy on a non-empty
\* text fails with a ConfigurationError before any chunk is produced, and
\* never runs the window loop.
C5_FixedRejectsOverlapNotBelowSize ==
    (strategy = "fixed" /\ chunk_overlap >= chunk_size /\ document.full_text # <<>>) =>
        /\ chunks = <<>>
        /\ pc = "error" => error.type = "ConfigurationError"
        /\ pc # "done"

\* C6: under smart with chunk_overlap > 0, every chunk that follows another
\* chunk of the same oversized section begins with the overlap text of that
\* preceding chunk, followed by the unit that started it.
C6_OverlapAfterEveryFlush ==
    (strategy = "smart" /\ chunk_overlap > 0) =>
        \A j \in 2..Len(chunks) :
            hist[j].sec = hist[j - 1].sec =>
                IsPrefix(_get_overlap_text(chunks[j - 1].content, chunk_overlap)
                             \o Sep(j) \o Units(j)[1],
                         chunks[j].content)

\* The units of a section: its content when it fits, else its paragraphs,
\* each oversized paragraph replaced by its sentences.
RECURSIVE ParagraphUnits(_, _)
ParagraphUnits(paragraphs, size) ==
    IF paragraphs = <<>> THEN <<>>
    ELSE (IF count_tokens(Head(paragraphs)) > size
          THEN _split_into_sentences(Head(paragraphs))
          ELSE <<Head(paragraphs)>>) \o ParagraphUnits(Tail(paragraphs), size)

SectionUnits(section, size) ==
    IF count_tokens(section.content) <= size THEN <<section.content>>
    ELSE ParagraphUnits(_split_into_paragraphs(section.content), size)

\* The non-overlap units of chunks from..Len(chunks), concatenated in id order.
RECURSIVE UnitsFrom(_)
UnitsFrom(from) ==
    IF from > Len(chunks) THEN <<>> ELSE Units(from) \o UnitsFrom(from + 1)

RECURSIVE AllSectionUnits(_, _, _)
AllSectionUnits(sections, upto, size) ==
    IF upto = 0 THEN <<>>
    ELSE AllSectionUnits(sections, upto - 1, size) \o SectionUnits(sections[upto], size)

\* C7: under smart, the chunks in id order, their overlap tails removed, hold
\* section by section exactly the units of the sections: every unit once, in
\* document order, none dropped, none repeated; each chunk's content is its
\* buffer joined, and a removed tail is the overlap text of the chunk before.
C7_UnitsPartitioned ==
    strategy = "smart" =>
        /\ UnitsFrom(1) = AllSectionUnits(document.sections, k - 1, chunk_size)
        /\ \A j \in 1..Len(chunks) :
               /\ chunks[j].content = Join(hist[j].buffer, Sep(j))
               /\ Units(j) # <<>>
               /\ j > 1 => hist[j - 1].sec <= hist[j].sec
               /\ hist[j].seeded =>
                      /\ j > 1
                      /\ hist[j].buffer[1] =
                             _get_overlap_text(chunks[j - 1].content, chunk_overlap)
        /\ \A s \in 1..(k - 1) :
               LET js == ChunksOf(s)
                   RECURSIVE Gather(_)
                   Gather(j) == IF j > Len(chunks) THEN <<>>
                                ELSE (IF j \in js THEN Units(j) ELSE <<>>) \o Gather(j + 1)
               IN  Gather(1) = SectionUnits(document.sections[s], chunk_size)

C7_Witness ==
    /\ pc = "done"
    /\ strategy = "smart"
    /\ chunk_overlap > 0
    /\ Len(document.sections) >= 2
    /\ \E j \in 2..Len(chunks) : hist[j].seeded /\ Len(Units(j)) >= 1

\* C8: under smart a section with count_tokens(content) <= chunk_size gives
\* exactly one chunk: the content verbatim, that count as token_count, tagged
\* section_preserved with is_complete_section true; a section above chunk_size
\* gives no section_preserved chunk.
C8_FittingSectionPreserved ==
    strategy = "smart" =>
        \A s \in 1..(k - 1) :
            LET section == document.sections[s]
                n == count_tokens(section.content)
            IN  IF n <= chunk_size
                THEN \E j \in 1..Len(chunks) :
                        /\ ChunksOf(s) = {j}
                        /\ chunks[j].content = section.content
                        /\ chunks[j].token_count = n
                        /\ chunks[j].strategy = "section_preserved"
                        /\ chunks[j].is_complete_section = TRUE
                ELSE \A j \in ChunksOf(s) : chunks[j].strategy # "section_preserved"

C8_Witness ==
    /\ pc = "done"
    /\ strategy = "smart"
    /\ \E s, t \in 1..Len(document.sections) :
           /\ count_tokens(document.sections[s].content) = chunk_size
           /\ count_tokens(document.sections[t].content) > chunk_size
           /\ ChunksOf(t) # {}

\* C9: under section the output has one chunk per section, in order: chunk k
\* has section k's content verbatim, chunk_id k (from 0), its title and level,
\* the tag section and is_complete_section true, whatever chunk_size and
\* chunk_overlap are.
C9_SectionOneChunkPerSection ==
    strategy = "section" =>
        /\ Len(chunks) = k - 1
        /\ pc = "done" => Len(chunks) = Len(document.sections)
        /\ \A j \in 1..Len(chunks) :
               /\ chunks[j].content = document.sections[j].content
               /\ chunks[j].chunk_id = j - 1
               /\ chunks[j].section_title = document.sections[j].title
               /\ chunks[j].section_level = document.sections[j].level
               /\ chunks[j].strategy = "section"
               /\ chunks[j].is_complete_section = TRUE

C9_Witness ==
    /\ pc = "done"
    /\ strategy = "section"
    /\ chunk_overlap >= chunk_size
    /\ Len(chunks) >= 2
    /\ \E j \in 1..Len(chunks) : count_tokens(chunks[j].content) > chunk_size

\* C10: under sentence, for every chunk_overlap, the chunks partition the
\* sentences of full_text: each chunk is its own sentences joined by a space
\* and nothing else, the sentences of the chunks in order are the sentences of
\* the text, and every chunk is tagged sentence.
C10_SentencePartition ==
    strategy = "sentence" =>
        /\ pc = "sentence" => UnitsFrom(1) \o current_chunk = SubSeq(sentences, 1, k - 1)
        /\ sentences = _split_into_sentences(document.full_text)
        /\ pc = "done" => UnitsFrom(1) = _split_into_sentences(document.full_text)
        /\ \A j \in 1..Len(chunks) :
               /\ hist[j].buffer # <<>>
               /\ ~hist[j].seeded
               /\ chunks[j].content = Join(hist[j].buffer, <<" ">>)
               /\ chunks[j].strategy = "sentence"

C10_Witness ==
    /\ pc = "done"
    /\ strategy = "sentence"
    /\ chunk_overlap > 0
    /\ Len(chunks) >= 2
    /\ Len(sentences) >= 2

\* C11: chunk_document with a strategy name other than smart, fixed, sentence
\* and section raises a ValueError whose message names the given value, and
\* gives no chunks: nothing is produced before or after the raise.
C11_UnknownStrategyValueError ==
    (strategy # NoneVal /\ strategy \notin {"smart", "fixed", "sentence", "section"}) =>
        /\ pc = "error"
        /\ error.type = "ValueError"
        /\ \E n \in 1..Len(error.message) : error.message[n] = strategy
        /\ chunks = <<>>

C11_Witness ==
    /\ pc = "error"
    /\ strategy = "SMART"
    /\ document.sections # <<>>
    /\ error = ValueError("Unknown chunking strategy: ", "SMART")

\* C12: get_strategy_instance with a name other than stuff, map_reduce and
\* refine raises a ValueError naming the value before a strategy class is
\* constructed and before the model manager is asked for a model (its cache
\* is as it was at the call); with one of the three names it constructs the
\* matching class: StuffStrategy, MapReduceStrategy or RefineStrategy.
C12_GetStrategyInstance ==
    inst.pc # "idle" =>
        IF inst.strategy_name \notin {"stuff", "map_reduce", "refine"}
        THEN /\ inst.pc \in {"lookup", "error"}
             /\ inst.strategy_class = NoneVal
             /\ inst.result = NoneVal
             /\ models_cache = inst.cache_at_call
             /\ inst.pc = "error" =>
                    /\ inst.error.type = "ValueError"
                    /\ \E n \in 1..Len(inst.error.message) :
                           inst.error.message[n] = inst.strategy_name
        ELSE LET matching == CASE inst.strategy_name = "stuff" -> "StuffStrategy"
                               [] inst.strategy_name = "map_reduce" -> "MapReduceStrategy"
                               [] inst.strategy_name = "refine" -> "RefineStrategy"
             IN  /\ inst.pc \in {"construct", "done", "error"} =>
                        inst.strategy_class = matching
                 /\ inst.pc = "done" => inst.result.class = matching
                 /\ inst.pc = "error" => inst.error.type # "ValueError"
                                            \/ inst.error.message[1] = "Unknown model: "

C12_Witness ==
    /\ inst.pc = "error"
    /\ inst.strategy_name = "STUFF"
    /\ inst.model_name = "llama-3.1-8b-instant"
    /\ models_cache = {CacheKey("gemma2-9b-it")}
    /\ inst.error = ValueError("Unknown strategy: ", "STUFF")

\* A get_strategy_instance call with one of the three names has returned its
\* instance.
C12_WitnessConstructed ==
    /\ inst.pc = "done"
    /\ inst.strategy_name = "refine"
    /\ inst.result.class = "RefineStrategy"

\* C13: for the empty document (full_text "" and no sections) chunk_document
\* gives the empty chunk list and raises nothing under smart, fixed, sentence
\* and section, for every chunk_size and chunk_overlap, chunk_overlap >=
\* chunk_size included: no loop body runs and the return is the next step.
C13_EmptyDocumentNoChunks ==
    (strategy \in {"smart", "fixed", "sentence", "section"}
         /\ document.full_text = <<>> /\ document.sections = <<>>) =>
        /\ chunks = <<>>
        /\ pc \in {strategy, "done"}
        /\ error = NoError
        /\ pc = strategy =>
               /\ ~ENABLED (SmartStep \/ SectionStep \/ FixedStep \/ SentenceStep)
               /\ ENABLED (Return \/ SentenceReturn)

C13_Witness ==
    /\ pc = "done"
    /\ strategy = "fixed"
    /\ chunk_overlap >= chunk_size
    /\ document.full_text = <<>>
    /\ document.sections = <<>>
    /\ chunks = <<>>

\* C14: every chunk that chunk_document returns, under every strategy and for
\* every document, has non-empty content; a section with empty content gives
\* no chunk with empty content under smart or section.
C14_ContentNonEmpty ==
    \A j \in 1..Len(chunks) : chunks[j].content # <<>>

\* sum(chunk.token_count for chunk in chunks[from..])
RECURSIVE TokenCountSum(_)
TokenCountSum(from) ==
    IF from > Len(chunks) THEN 0
    ELSE chunks[from].token_count + TokenCountSum(from + 1)

\* C15: whenever chunk_overlap > 0, the token_count of the chunks returned
\* under smart or fixed add up to at least count_tokens(document.full_text).
C15_OverlapSumCoversText ==
    (pc = "done" /\ chunk_overlap > 0 /\ strategy \in {"smart", "fixed"}) =>
        TokenCountSum(1) >= count_tokens(document.full_text)

\* C16: every chunk of smart or section carries the title and the level of
\* the one section it was made from: its units are units of that section, an
\* overlap tail comes from a chunk of the same section, and this holds for
\* paragraph and sentence splitting; every chunk of fixed or sentence has
\* section_title and section_level unset.
C16_SectionAttribution ==
    /\ strategy \in {"smart", "section"} =>
           \A j \in 1..Len(chunks) :
               LET section == document.sections[hist[j].sec]
                   units == IF strategy = "smart" THEN SectionUnits(section, chunk_size)
                            ELSE <<section.content>>
               IN  /\ chunks[j].section_title = section.title
                   /\ chunks[j].section_level = section.level
                   /\ \A u \in 1..Len(Units(j)) :
                          \E n \in 1..Len(units) : units[n] = Units(j)[u]
                   /\ hist[j].seeded => j > 1 /\ hist[j - 1].sec = hist[j].sec
    /\ strategy \in {"fixed", "sentence"} =>
           \A j \in 1..Len(chunks) :
               /\ chunks[j].section_title = NoneVal
               /\ chunks[j].section_level = NoneVal

C16_Witness ==
    /\ pc = "done"
    /\ strategy = "smart"
    /\ \E j \in 2..Len(chunks) :
           /\ hist[j].sec = 2
           /\ hist[j - 1].sec = 2
           /\ chunks[j].strategy = "sentence_split"
           /\ chunks[j].section_title = <<"S", 2>>
           /\ chunks[j].section_level = 2

\* C17: over any sequence of chunk_document calls on one engine, no step
\* changes chunk_size or chunk_overlap, the input document changes only by a
\* new call being made with another document (the sections' title, content,
\* level and order are part of it), and the result of each call is what the
\* same call returns on a newly constructed engine of that configuration.
C17_StatelessAcrossCalls ==
    [][/\ chunk_size' = chunk_size
       /\ chunk_overlap' = chunk_overlap
       /\ document' # document => pc = "idle" /\ pc' # "idle"
       /\ pc' = "done" =>
              chunks' = chunk_document(document', strategy', chunk_size', chunk_overlap')
       /\ pc' = "error" => chunks' = <<>>]_vars

\* A later call on the engine has returned several chunks.
C17_Witness ==
    /\ retained
    /\ pc = "done"
    /\ strategy = "smart"
    /\ Len(chunks) >= 2
    /\ chunks = chunk_document(document, "smart", chunk_size, chunk_overlap)

\* C18: when two chunk_document invocations on one engine, on different
\* documents, run interleaved step by step in any order, each returns exactly
\* the chunks it returns when it runs alone, and the engine's configuration
\* stays as it was: the invocations share no chunk list, buffer, running
\* total or id counter.
C18_InterleavedCallsIndependent ==
    \A c \in Callers :
        /\ frames[c].pc = "done" =>
               frames[c].chunks = chunk_document(frames[c].document, frames[c].strategy,
                                                 chunk_size, chunk_overlap)
        /\ (frames[c].pc \in Strategies
                /\ (frames[c].pc = "fixed" => chunk_size > chunk_overlap)) =>
               IsPrefix(frames[c].chunks,
                        chunk_document(frames[c].document, frames[c].strategy,
                                       chunk_size, chunk_overlap))
        /\ \A j \in 1..Len(frames[c].chunks) : frames[c].chunks[j].chunk_id = j - 1

\* Both invocations have returned several chunks, each after steps taken
\* while the other one was between its first chunk and its return.
C18_Witness ==
    /\ frames[1].pc = "done"
    /\ frames[2].pc = "done"
    /\ frames[1].interleaved
    /\ frames[2].interleaved
    /\ frames[1].strategy = "smart"
    /\ frames[2].strategy = "fixed"
    /\ Len(frames[1].chunks) >= 2
    /\ Len(frames[2].chunks) >= 2
    /\ frames[1].document # frames[2].document

\* C19: when the overlap text (the last chunk_overlap tokens of the flushed
\* chunk, decoded) does not encode to the number of tokens that were taken,
\* the engine raises EncodingRoundTripFailure and no chunk is built on that
\* text.
C19_OverlapRoundTripChecked ==
    /\ \A j \in 2..Len(chunks) :
           hist[j].seeded =>
               LET taken == Encode(chunks[j - 1].content)
                   expected == IF Len(taken) <= chunk_overlap THEN Len(taken)
                               ELSE chunk_overlap
               IN  count_tokens(hist[j].buffer[1]) = expected
    /\ pc = "error" => error.type = "EncodingRoundTripFailure"

\* Every section of the document has at most chunk_size tokens.
AllSectionsFit ==
    \A s \in 1..Len(document.sections) :
        count_tokens(document.sections[s].content) <= chunk_size

\* C20: for a document all of whose sections have at most chunk_size tokens
\* (a single fitting section included), smart and section return lists of the
\* same length whose chunks agree pairwise in content, chunk_id,
\* section_title, section_level, token_count and is_complete_section and
\* differ only in the strategy tag, section_preserved against section.
C20_SmartEqualsSectionWhenFitting ==
    (pc = "done" /\ AllSectionsFit) =>
        /\ strategy = "smart" =>
               LET other == _section_chunk(document)
               IN  /\ Len(chunks) = Len(other)
                   /\ \A j \in 1..Len(chunks) :
                          /\ chunks[j].strategy = "section_preserved"
                          /\ other[j].strategy = "section"
                          /\ [chunks[j] EXCEPT !.strategy = "section"] = other[j]
        /\ strategy = "section" =>
               LET other == _smart_chunk(document, chunk_size, chunk_overlap)
               IN  /\ Len(chunks) = Len(other)
                   /\ \A j \in 1..Len(chunks) :
                          /\ chunks[j].strategy = "section"
                          /\ other[j].strategy = "section_preserved"
                          /\ [chunks[j] EXCEPT !.strategy = "section_preserved"] = other[j]

C20_Witness ==
    /\ pc = "done"
    /\ strategy = "smart"
    /\ chunk_overlap > 0
    /\ AllSectionsFit
    /\ Len(document.sections) >= 2
    /\ Len(chunks) = Len(document.sections)
    /\ \E s \in 1..Len(document.sections) :
           count_tokens(document.sections[s].content) = chunk_size

\* The document is one single section that fits, chunked under section.
C20_WitnessSingleSection ==
    /\ pc = "done"
    /\ strategy = "section"
    /\ Len(document.sections) = 1
    /\ AllSectionsFit
    /\ chunks[1].content # <<>>

\* Window k (0-based) of the fixed strategy, as 1-based token positions.
WindowLo(kk) == kk * (chunk_size - chunk_overlap) + 1

WindowHi(kk) ==
    LET stop == kk * (chunk_size - chunk_overlap) + chunk_size
    IN  IF stop < Len(tokens) THEN stop ELSE Len(tokens)

\* C26: under the fixed strategy with 0 <= chunk_overlap < chunk_size over n
\* tokens and step s = chunk_size - chunk_overlap, there are ceil(n / s)
\* chunks, chunk k holds exactly the tokens at [k*s, min(k*s + chunk_size, n)),
\* every token index is covered, two consecutive full-size windows share
\* exactly chunk_overlap tokens, no chunk has more than chunk_size tokens and
\* every chunk is tagged fixed.
C26_FixedWindows ==
    (pc = "done" /\ strategy = "fixed" /\ chunk_overlap < chunk_size) =>
        LET n == Len(tokens)
            s == chunk_size - chunk_overlap
            window(kk) == [m \in 1..(WindowHi(kk) - WindowLo(kk) + 1) |->
                              tokens[WindowLo(kk) + m - 1]]
        IN  /\ tokens = Encode(document.full_text)
            /\ Len(chunks) = (n + s - 1) \div s
            /\ \A j \in 1..Len(chunks) :
                   /\ hist[j].buffer = window(j - 1)
                   /\ chunks[j].content = Decode(window(j - 1))
                   /\ chunks[j].token_count = WindowHi(j - 1) - WindowLo(j - 1) + 1
                   /\ chunks[j].token_count <= chunk_size
                   /\ chunks[j].token_count >= 1
                   /\ chunks[j].strategy = "fixed"
                   /\ chunks[j].chunk_id = j - 1
            /\ \A t \in 1..n :
                   \E j \in 1..Len(chunks) : WindowLo(j - 1) <= t /\ t <= WindowHi(j - 1)
            /\ \A j \in 1..(Len(chunks) - 1) :
                   (chunks[j].token_count = chunk_size
                        /\ chunks[j + 1].token_count = chunk_size) =>
                       /\ Cardinality((WindowLo(j - 1)..WindowHi(j - 1))
                                          \cap (WindowLo(j)..WindowHi(j))) = chunk_overlap
                       /\ PySlice(hist[j].buffer, chunk_size - chunk_overlap, chunk_size)
                              = PySlice(hist[j + 1].buffer, 0, chunk_overlap)

\* A fixed run with overlap whose windows are full except the last.
C26_Witness ==
    /\ pc = "done"
    /\ strategy = "fixed"
    /\ chunk_overlap > 0
    /\ chunk_overlap < chunk_size
    /\ Len(chunks) >= 3
    /\ chunks[1].token_count = chunk_size
    /\ chunks[2].token_count = chunk_size
    /\ chunks[Len(chunks)].token_count < chunk_size

\* C28: under the fixed strategy with 0 < chunk_overlap < chunk_size, every
\* chunk after the first contains at least one token position that the
\* preceding chunk does not contain, the last chunk included.
C28_EveryChunkHasNewToken ==
    (strategy = "fixed" /\ 0 < chunk_overlap /\ chunk_overlap < chunk_size) =>
        \A j \in 2..Len(chunks) :
            \E t \in WindowLo(j - 1)..WindowHi(j - 1) :
                t \notin WindowLo(j - 2)..WindowHi(j - 2)

\* C25: for every finite document and every configuration with
\* chunk_size >= 1 and 0 <= chunk_overlap < chunk_size, a started
\* chunk_document call reaches its return under each of the four strategies,
\* and in the fixed strategy every iteration strictly increases the window
\* start, which stays a multiple of the step until the loop ends.
C25_TerminatesWhenOverlapBelowSize ==
    /\ (pc \in Strategies /\ chunk_size >= 1 /\ 0 <= chunk_overlap
            /\ chunk_overlap < chunk_size) ~> (pc = "done")
    /\ [][(pc = "fixed" /\ chunk_overlap < chunk_size /\ i' # i) =>
              (i' > i /\ i < Len(tokens) /\ pc' = "fixed")]_vars
    /\ [][(pc = "fixed" /\ chunk_overlap < chunk_size /\ pc' = "fixed") =>
              (i' > i /\ i < Len(tokens))]_vars

\* A fixed call over at least three windows has returned.
C25_Witness ==
    /\ pc = "done"
    /\ strategy = "fixed"
    /\ chunk_overlap < chunk_size
    /\ Len(chunks) >= 3
    /\ i >= Len(tokens)

\* The sum of the token counts of the elements of a buffer.
RECURSIVE BufferTokens(_)
BufferTokens(buffer) ==
    IF buffer = <<>> THEN 0
    ELSE count_tokens(Head(buffer)) + BufferTokens(Tail(buffer))

\* C27: in the paragraph-level split of an oversized section, when the
\* overlap text encodes to at most chunk_overlap tokens, the running total of
\* the buffer (the sum of the token counts of its elements) is at most
\* chunk_size + chunk_overlap when a paragraph_based chunk is flushed, and at
\* most chunk_size when chunk_overlap = 0, when the buffer has no overlap tail
\* and when a paragraph was appended to a buffer that already held one.
C27_RunningTotalBounded ==
    \A j \in 1..Len(chunks) :
        (chunks[j].strategy = "paragraph_based"
             /\ (hist[j].seeded => count_tokens(hist[j].buffer[1]) <= chunk_overlap)) =>
            /\ hist[j].total = BufferTokens(hist[j].buffer)
            /\ hist[j].total <= chunk_size + chunk_overlap
            /\ chunk_overlap = 0 => hist[j].total <= chunk_size
            /\ ~hist[j].seeded => hist[j].total <= chunk_size
            /\ Len(Units(j)) >= 2 => hist[j].total <= chunk_size

\* A buffer seeded with an overlap tail was flushed above chunk_size.
C27_Witness ==
    \E j \in 1..Len(chunks) :
        /\ chunks[j].strategy = "paragraph_based"
        /\ hist[j].seeded
        /\ count_tokens(hist[j].buffer[1]) = chunk_overlap
        /\ hist[j].total > chunk_size
        /\ hist[j].total = chunk_size + chunk_overlap

\* A paragraph was appended to a buffer that already held one.
C27_WitnessAppended ==
    \E j \in 1..Len(chunks) :
        /\ chunks[j].strategy = "paragraph_based"
        /\ Len(Units(j)) >= 2

\* The suffix of the path of the get_processor call, in lower case, as text.
FacSuffix == LowerSeq(PathSuffix(fac.file_path))

\* C21: get_processor returns a PDFProcessor for a path with suffix .pdf, a
\* DOCXProcessor for .docx and a TextProcessor for .txt, .md and .markdown,
\* the suffix compared case-insensitively; it raises ValueError for every
\* other suffix, a path with no suffix included, and returns no other kind.
C21_GetProcessorBySuffix ==
    fac.pc \in {"done", "error"} =>
        /\ FacSuffix = <<".", "pdf">> =>
               fac.pc = "done" /\ fac.result = "PDFProcessor"
        /\ FacSuffix = <<".", "docx">> =>
               fac.pc = "done" /\ fac.result = "DOCXProcessor"
        /\ FacSuffix \in {<<".", "txt">>, <<".", "md">>, <<".", "markdown">>} =>
               fac.pc = "done" /\ fac.result = "TextProcessor"
        /\ FacSuffix \notin {<<".", "pdf">>, <<".", "docx">>, <<".", "txt">>,
                              <<".", "md">>, <<".", "markdown">>} =>
               /\ fac.pc = "error"
               /\ fac.error.type = "ValueError"
               /\ fac.result = NoneVal
        /\ fac.pc = "done" =>
               /\ fac.result \in {"PDFProcessor", "DOCXProcessor", "TextProcessor"}
               /\ fac.error = NoError

\* A suffix written with upper-case letters selected a processor.
C21_Witness ==
    /\ fac.pc = "done"
    /\ fac.result = "TextProcessor"
    /\ PathSuffix(fac.file_path) # FacSuffix
    /\ Len(fac.file_path) = 3

\* A path with no suffix was rejected.
C21_WitnessNoSuffix ==
    /\ fac.pc = "error"
    /\ fac.file_path # <<>>
    /\ PathSuffix(fac.file_path) = <<>>
    /\ fac.error = ValueError("Unsupported file type: ", <<>>)

\* The stripped heading lines of the text of the extract_sections call, in
\* the order of the text.
IsHeadingLine(s) == s # <<>> /\ PatternType(s) # "none"

HeadingLines ==
    SelectSeq([j \in 1..Len(ext.lines) |-> Strip(ext.lines[j])], IsHeadingLine)

\* The text of a heading line: what follows the hashes of a markdown heading
\* or the number of a numbered heading, the whole line otherwise.
ExpectedTitle(head) ==
    IF PatternType(head) = "markdown" THEN LStrip(Drop(head, RunLen(head, {"#"})))
    ELSE IF PatternType(head) = "numbered" THEN LStrip(Drop(head, NumberGroups(head)))
    ELSE head

\* C22: for every input text extract_sections returns a non-empty list of
\* sections in document order, one per heading line and titled with the
\* heading text (markdown marks stripped); when no line is a heading the
\* result is the single section "Document Content" of level 1 whose content
\* is the entire input text.
C22_SectionsFollowHeadings ==
    ext.pc = "done" =>
        /\ ext.lines = SplitLines(ext.text)
        /\ Len(ext.sections) >= 1
        /\ HeadingLines # <<>> =>
               /\ Len(ext.sections) = Len(HeadingLines)
               /\ \A j \in 1..Len(HeadingLines) :
                      /\ ext.sections[j].title = ExpectedTitle(HeadingLines[j])
                      /\ ext.sections[j].title # <<>>
                      /\ Head(ext.sections[j].title) \notin {"#", " "}
        /\ HeadingLines = <<>> =>
               ext.sections = <<DocumentSection(<<"Document Content">>, ext.text, 1)>>

\* A text with a markdown heading and a heading of another kind was split.
C22_Witness ==
    /\ ext.pc = "done"
    /\ Len(HeadingLines) >= 2
    /\ PatternType(HeadingLines[1]) = "markdown"
    /\ PatternType(HeadingLines[2]) \in {"numbered", "roman", "all_caps"}
    /\ Len(ext.sections) = 2

\* A text with body lines and no heading gave the default section.
C22_WitnessDefault ==
    /\ ext.pc = "done"
    /\ HeadingLines = <<>>
    /\ Strip(ext.text) # <<>>
    /\ ext.sections[1].content = ext.text

\* The indexes of the heading lines of the text, in increasing order.
HeadingIndexes ==
    SelectSeq([j \in 1..Len(ext.lines) |-> IF IsHeadingLine(Strip(ext.lines[j])) THEN j ELSE 0],
              LAMBDA x : x # 0)

IsBodyLine(line) == Strip(line) # <<>>

\* The body of section j: the non-blank lines after its heading line and
\* before the next heading line (or the end of the text), joined and stripped.
SectionBody(j) ==
    LET from == HeadingIndexes[j] + 1
        to == IF j < Len(HeadingIndexes) THEN HeadingIndexes[j + 1] - 1
              ELSE Len(ext.lines)
    IN  Strip(Join(SelectSeq(SubSeq(ext.lines, from, to), IsBodyLine), <<"n">>))

\* C23: when at least one heading is recognized, the content of every section
\* is its body only: the non-blank, non-heading lines between its own heading
\* line and the next heading line (or the end of the text), without the
\* heading line and without any line located before its own heading.
C23_ContentIsOwnBody ==
    (ext.pc = "done" /\ HeadingIndexes # <<>>) =>
        \A j \in 1..Len(ext.sections) : ext.sections[j].content = SectionBody(j)

\* C24: every section produced by extract_sections has a level in 1..6, for
\* every heading format (markdown, all-caps, numbered, roman numeral) and for
\* the default section.
C24_LevelInRange ==
    \A j \in 1..Len(ext.sections) : ext.sections[j].level \in 1..6

\* C29: for every chunk list and every total_tokens, generate_all_summaries
\* returns exactly the four entries tldr, bullet, executive and detailed;
\* tldr is produced by the stuff strategy and the other three by the one
\* strategy that select_strategy returns for the balanced preference; the
\* refine strategy is never used.
C29_FourEntriesNeverRefine ==
    LET balanced == select_strategy(summ.chunks, summ.total_tokens, "balanced")
    IN  /\ summ.pc = "done" =>
               [j \in 1..Len(summ.summaries) |-> summ.summaries[j].key]
                   = <<"tldr", "bullet", "executive", "detailed">>
        /\ \A j \in 1..Len(summ.summaries) :
               /\ summ.summaries[j].result.summary_type = summ.summaries[j].key
               /\ summ.summaries[j].result.strategy_used # "refine"
               /\ summ.summaries[j].result.strategy_used =
                      IF summ.summaries[j].key = "tldr" THEN "stuff" ELSE balanced
        /\ "RefineStrategy" \notin summ.instantiated

\* A document of a size for which the premium preference would have chosen
\* refine has its four summaries.
C29_Witness ==
    /\ summ.pc = "done"
    /\ summ.total_tokens >= StuffLimit
    /\ summ.total_tokens < RefineLimit
    /\ Len(summ.summaries) = 4
    /\ summ.summaries[1].result.strategy_used = "stuff"
    /\ summ.summaries[4].result.strategy_used = "map_reduce"
    /\ summ.instantiated = {"StuffStrategy", "MapReduceStrategy"}

\* C30: after any sequence of "Process & Summarize" runs, each of which may
\* fail at document processing, chunking or summary generation, whenever
\* summaries is non-empty it was generated from the chunks in session state,
\* and processed_doc, chunks and summaries belong to the same document.
C30_SummariesMatchChunks ==
    (session.pc = "idle" /\ session.summaries # 0) =>
        /\ session.summaries = session.chunks
        /\ session.chunks = session.processed_doc

====
